---- MODULE Spec2Model ----
(***************************************************************************)
(* Gesture-controlled Pong: the application shell (src/App.tsx, first      *)
(* component, lines 1-687), the instruction overlay it renders             *)
(* (src/unnamed/part_006, lines 311-544) and the physics canvas            *)
(* (src/components/GameCanvas.tsx).                                         *)
(*                                                                         *)
(* Granularity.  One action is one callback of the single JavaScript       *)
(* thread (a click handler, the landmark callback onResults, one display   *)
(* frame, one expired setTimeout) followed by the React commit it causes:  *)
(* the state updates it queued, the effects whose dependencies changed and *)
(* the updates those effects queue in turn, until nothing is pending.      *)
(*                                                                         *)
(* Numbers.  JavaScript doubles are modelled in fixed point:               *)
(*   landmark coordinates   thousandths of the normalised frame (0..1000), *)
(*   positions (pixels)     hundredths of a pixel (U == 100),              *)
(*   velocities             whole pixels per second,                       *)
(*   durations              milliseconds.                                  *)
(* A product or quotient that is not a whole number of these units is      *)
(* truncated toward zero.                                                  *)
(***************************************************************************)
EXTENDS Integers, Sequences, FiniteSets, TLC

\* ------------------------------------------------------------------------
\* Program constants (src/unnamed/part_002, the constants module that
\* GameCanvas.tsx imports its pixels-per-second values from)
\* ------------------------------------------------------------------------
U == 100

GAME_WIDTH == 1280 * U

GAME_HEIGHT == 720 * U

BALL_RADIUS == 10 * U

PADDLE_WIDTH == 15 * U

PADDLE_HEIGHT == 120 * U

WINNING_SCORE == 5

INITIAL_BALL_SPEED_Y_MIN == 90

INITIAL_BALL_SPEED_Y_MAX == 210

PADDLE_BOUNCE_VY_MULTIPLIER == 300

\* MAX_BALL_SPEED_MULTIPLIER = 2.5, in tenths
MAX_BALL_SPEED_MULTIPLIER == 25

DIFFICULTY_SETTINGS ==
  [ easy   |-> [paddleSpeedAI |-> 180, initialBallSpeedX |-> 240],
    medium |-> [paddleSpeedAI |-> 240, initialBallSpeedX |-> 300],
    hard   |-> [paddleSpeedAI |-> 360, initialBallSpeedX |-> 420] ]

\* the durations of the setTimeout calls
BALL_RESET_DELAY == 300

GAME_OVER_DELAY == 500

\* App.tsx 532 and 531: the banter message appears after this delay and is
\* taken down after this time on display
BANTER_DELAY == 50

BANTER_DURATION == 4000

\* App.tsx 21-22: the messages used while the service has delivered none
FALLBACK_TAUNTS == <<"HAHAHA!", "LENTO DEMAIS!", "SO ISSO?", "TENTE MAIS!", "ROBOS DOMINAM!">>

FALLBACK_PRAISES ==
  <<"SORTE DE PRINCIPIANTE...", "HMPH.", "NAO SE ACOSTUME.", "NADA MAL... PARA UM HUMANO.">>

PAUSE_COOLDOWN == 1000

RESET_COOLDOWN == 2000

START_COOLDOWN == 2000

\* the clamp of the physics time step, Math.min(dt, 0.05)
MAX_DT == 50

\* the AI dead zone, Math.abs(diff) > 10
AI_DEAD_ZONE == 10 * U

\* ------------------------------------------------------------------------
\* Arithmetic helpers
\* ------------------------------------------------------------------------
Abs(n) == IF n < 0 THEN -n ELSE n

Sign(n) == IF n > 0 THEN 1 ELSE IF n < 0 THEN -1 ELSE 0

Min(a, b) == IF a < b THEN a ELSE b

Max(a, b) == IF a > b THEN a ELSE b

\* quotient truncated toward zero (b > 0)
Trunc(a, b) == IF a >= 0 THEN a \div b ELSE -((-a) \div b)

minPaddleY == PADDLE_HEIGHT \div 2

maxPaddleY == GAME_HEIGHT - PADDLE_HEIGHT \div 2

playerCollisionPlaneX == PADDLE_WIDTH * 3 + BALL_RADIUS

computerCollisionPlaneX == GAME_WIDTH - PADDLE_WIDTH * 3 - BALL_RADIUS

\* ------------------------------------------------------------------------
\* Landmark frames.  A hand is a sequence of landmarks [x, y]; landmark i of
\* the MediaPipe schema is element i + 1.  NoHand is a result without
\* multiHandLandmarks.
\* ------------------------------------------------------------------------
NoHand == << >>

WRIST == 0

THUMB_IP == 3

THUMB_TIP == 4

INDEX_FINGER_PIP == 6

INDEX_FINGER_TIP == 8

MIDDLE_FINGER_MCP == 9

MIDDLE_FINGER_PIP == 10

MIDDLE_FINGER_TIP == 12

RING_FINGER_PIP == 14

RING_FINGER_TIP == 16

PINKY_PIP == 18

PINKY_TIP == 20

LM(landmarks, i) == landmarks[i + 1]

\* A coordinate that is not a finite number.  It stands for JavaScript's NaN:
\* every comparison with it is false and every sum or product with it is NaN.
NaN == 0 - 1000000000

\* a < b and a > b of JavaScript numbers
Lt(a, b) == a # NaN /\ b # NaN /\ a < b

Gt(a, b) == a # NaN /\ b # NaN /\ a > b

\* a thumbs_down rule that looks only at the middle-finger knuckle
thumbBelowKnuckleOnly(landmarks) == TRUE

\* App.tsx 100: the thumb tip is below the thumb's IP joint
isThumbDown(landmarks) == Gt(LM(landmarks, THUMB_TIP).y, LM(landmarks, THUMB_IP).y)

\* src/App.tsx detectGesture
detectGesture(landmarks) ==
  IF Len(landmarks) < 21 THEN "unknown"
  ELSE
    LET isIndexExtended  == Lt(LM(landmarks, INDEX_FINGER_TIP).y, LM(landmarks, INDEX_FINGER_PIP).y)
        isMiddleExtended == Lt(LM(landmarks, MIDDLE_FINGER_TIP).y, LM(landmarks, MIDDLE_FINGER_PIP).y)
        isRingExtended   == Lt(LM(landmarks, RING_FINGER_TIP).y, LM(landmarks, RING_FINGER_PIP).y)
        isPinkyExtended  == Lt(LM(landmarks, PINKY_TIP).y, LM(landmarks, PINKY_PIP).y)
        isThumbExtended  == Lt(LM(landmarks, THUMB_TIP).x, LM(landmarks, THUMB_IP).x)
        isThumbClearlyUp   == Lt(LM(landmarks, THUMB_TIP).y, LM(landmarks, INDEX_FINGER_PIP).y)
        isThumbClearlyDown == Gt(LM(landmarks, THUMB_TIP).y, LM(landmarks, MIDDLE_FINGER_MCP).y)
        allFingersExtended ==
          isIndexExtended /\ isMiddleExtended /\ isRingExtended /\ isPinkyExtended
        areFingersCurled ==
          /\ Gt(LM(landmarks, INDEX_FINGER_TIP).y, LM(landmarks, INDEX_FINGER_PIP).y)
          /\ Gt(LM(landmarks, MIDDLE_FINGER_TIP).y, LM(landmarks, MIDDLE_FINGER_PIP).y)
          /\ Gt(LM(landmarks, RING_FINGER_TIP).y, LM(landmarks, RING_FINGER_PIP).y)
          /\ Gt(LM(landmarks, PINKY_TIP).y, LM(landmarks, PINKY_PIP).y)
        areOthersCurledForPointer ==
          /\ Gt(LM(landmarks, MIDDLE_FINGER_TIP).y, LM(landmarks, MIDDLE_FINGER_PIP).y)
          /\ Gt(LM(landmarks, RING_FINGER_TIP).y, LM(landmarks, RING_FINGER_PIP).y)
          /\ Gt(LM(landmarks, PINKY_TIP).y, LM(landmarks, PINKY_PIP).y)
        \* Math.hypot of a NaN is NaN, and no distance compares with it
        finiteSpread ==
          \A i \in {WRIST, MIDDLE_FINGER_MCP, INDEX_FINGER_TIP, PINKY_TIP} :
            LM(landmarks, i).x # NaN /\ LM(landmarks, i).y # NaN
        \* Math.hypot compared through its square: d > 1.1 * p  <=>  100 d^2 > 121 p^2
        palmHeight2 ==
          (LM(landmarks, WRIST).x - LM(landmarks, MIDDLE_FINGER_MCP).x)
            * (LM(landmarks, WRIST).x - LM(landmarks, MIDDLE_FINGER_MCP).x)
          + (LM(landmarks, WRIST).y - LM(landmarks, MIDDLE_FINGER_MCP).y)
            * (LM(landmarks, WRIST).y - LM(landmarks, MIDDLE_FINGER_MCP).y)
        spreadDistance2 ==
          (LM(landmarks, INDEX_FINGER_TIP).x - LM(landmarks, PINKY_TIP).x)
            * (LM(landmarks, INDEX_FINGER_TIP).x - LM(landmarks, PINKY_TIP).x)
          + (LM(landmarks, INDEX_FINGER_TIP).y - LM(landmarks, PINKY_TIP).y)
            * (LM(landmarks, INDEX_FINGER_TIP).y - LM(landmarks, PINKY_TIP).y)
    IN  IF isThumbClearlyUp /\ areFingersCurled THEN "thumbs_up"
        ELSE IF isThumbDown(landmarks) /\ isThumbClearlyDown /\ areFingersCurled THEN "thumbs_down"
        ELSE IF isIndexExtended /\ areOthersCurledForPointer THEN "pointer"
        ELSE IF areFingersCurled /\ ~isThumbClearlyUp THEN "fist"
        ELSE IF allFingersExtended /\ isThumbExtended /\ finiteSpread
                /\ 100 * spreadDistance2 > 121 * palmHeight2 THEN "spread"
        ELSE "open"

\* ------------------------------------------------------------------------
\* The hands the landmark source delivers in this model: six poses, each
\* placed with its wrist at height wy.  A pose lists, per landmark of the
\* schema, the offset [dx, dy] from the wrist (y grows downwards, so a
\* negative dy is above the wrist); the landmarks the classifier does not
\* read sit on the wrist.
\* ------------------------------------------------------------------------
PoseNames == {"fist", "pointer", "spread", "thumbs_up", "thumbs_down", "open"}

\* offsets of one finger: its PIP joint and its tip
Curled == [pip |-> -100, tip |-> -60]

Extended == [pip |-> -100, tip |-> -180]

PoseOffsets(pose) ==
  LET fingers ==
        CASE pose = "pointer" -> <<Extended, Curled, Curled, Curled>>
          [] pose \in {"spread", "open"} -> <<Extended, Extended, Extended, Extended>>
          [] OTHER -> <<Curled, Curled, Curled, Curled>>
      \* x of the four finger columns: a spread hand fans out, an open one does not
      fx == IF pose = "spread" THEN <<-90, -30, 30, 90>> ELSE <<-30, -10, 10, 30>>
      thumbIP == [dx |-> -60, dy |-> -70]
      thumbTip ==
        CASE pose = "thumbs_up"   -> [dx |-> -60, dy |-> -160]
          [] pose = "thumbs_down" -> [dx |-> -60, dy |-> 40]
          [] pose \in {"spread", "open"} -> [dx |-> -100, dy |-> -80]
          [] OTHER                -> [dx |-> -50, dy |-> -80]
  IN  [i \in 0..20 |->
        CASE i = THUMB_IP          -> thumbIP
          [] i = THUMB_TIP         -> thumbTip
          [] i = INDEX_FINGER_PIP  -> [dx |-> fx[1], dy |-> fingers[1].pip]
          [] i = INDEX_FINGER_TIP  -> [dx |-> fx[1], dy |-> fingers[1].tip]
          [] i = MIDDLE_FINGER_MCP -> [dx |-> fx[2], dy |-> -90]
          [] i = MIDDLE_FINGER_PIP -> [dx |-> fx[2], dy |-> fingers[2].pip]
          [] i = MIDDLE_FINGER_TIP -> [dx |-> fx[2], dy |-> fingers[2].tip]
          [] i = RING_FINGER_PIP   -> [dx |-> fx[3], dy |-> fingers[3].pip]
          [] i = RING_FINGER_TIP   -> [dx |-> fx[3], dy |-> fingers[3].tip]
          [] i = PINKY_PIP         -> [dx |-> fx[4], dy |-> fingers[4].pip]
          [] i = PINKY_TIP         -> [dx |-> fx[4], dy |-> fingers[4].tip]
          [] OTHER                 -> [dx |-> 0, dy |-> 0] ]

Hand(pose, wy) ==
  [k \in 1..21 |-> [x |-> 500 + PoseOffsets(pose)[k - 1].dx,
                    y |-> wy + PoseOffsets(pose)[k - 1].dy]]

\* ------------------------------------------------------------------------
\* Bounds of the model
\* ------------------------------------------------------------------------
\* wrist heights (thousandths) at which the player holds the control hand
\* before a game; the hand may be tracked slightly outside the frame
WristYs == {-50, 200, 500, 825, 1050}

\* wrist heights of the fist shown during calibration
CalibrationWristYs == {200, 800}

\* wrist heights of the fist in repeated calibrations: two of them are less
\* than a tenth of the frame apart
CloseWristYs == {200, 460, 540, 800}

\* raw wrist heights (thousandths), some of them outside the frame
RawYs == {-100, -1, 0, 1, 100, 200, 201, 330, 450, 500, 551, 670, 799, 800, 900, 999, 1000,
          1001, 1100}

\* the poses that trigger a status action, shown with the wrist at mid-height
GesturePoses == {"spread", "thumbs_up", "thumbs_down"}

\* values of Math.random(), in thousandths
RandomNumbers == {0, 999}

\* what the generated-text service answers: an error, two lists, or JSON
\* without usable taunts
Responses ==
  { [ok |-> FALSE, taunts |-> << >>, praises |-> << >>],
    [ok |-> TRUE, taunts |-> <<"GAME OVER, HUMAN.", "TOO SLOW!">>, praises |-> <<"LUCKY SHOT.">>],
    [ok |-> TRUE, taunts |-> << >>, praises |-> <<"LUCKY SHOT.">>] }

\* milliseconds between two display frames when the tab stalls or resumes
TickGaps == {0, 25, 50, 100, 1000}

\* ball positions (px) and velocities (px/s) a tick starts from
TickBalls ==
  {[x |-> bx * U, y |-> by * U] : bx \in {10, 60, 640, 1240}, by \in {10, 12, 360, 710}}

\* where the player's paddle stands during these ticks: at its upper stop or
\* in the middle
TickPaddles == {PADDLE_HEIGHT \div 2, GAME_HEIGHT \div 2}

TickSpeeds == {[vx |-> vx, vy |-> vy] : vx \in {-300, 300}, vy \in {-210, 0, 210}}

\* milliseconds between two display frames
FrameGaps == {0, 50, 100}

\* magnitudes of the random vertical serve speed, in
\* [INITIAL_BALL_SPEED_Y_MIN, INITIAL_BALL_SPEED_Y_MAX)
ServeSpeedsY == {100}

\* points played in the games that follow the banter layer
MaxBanterPoints == 2

\* accepted calibrations kept in the history
MaxHistory == 2

\* games recorded in the persistent tally
MaxTally == 2

\* the game loop is followed while the ball is no faster than this (px/s)
MaxSpeedX == 1100

\* ------------------------------------------------------------------------
\* State
\* ------------------------------------------------------------------------
VARIABLES
  \* src/App.tsx
  gameStatus,                 \* useState<GameStatus>
  gameStatusRef,              \* mirror of gameStatus read by onResults
  difficulty,
  gestureType,
  playerY,                    \* rendered paddle centre
  targetPlayerYRef,           \* smoothing target
  webcamReady,
  persistentScore,
  calibrationStep,
  calibrationRange,
  calibrationHistory,
  calibrationDataRef,
  lastValidCalibPositionRef,  \* << >> (null) or <<y>>, a wrist height
  handVisibleRef,
  gestureActionLockRef,
  aiMessage,                  \* << >> (null) or <<message>>, the banter on display
  taunts,
  praises,
  isFetchingBanter,           \* a request to the generated-text service is pending
  \* src/components/GameCanvas.tsx
  ball,
  ballSpeed,
  computerY,
  score,
  isReady,
  gameOverInitiated,
  prevScoreRef,
  pointScoredRef,
  \* pending setTimeout callbacks, in the order they were scheduled
  timers,
  \* observers
  cooldownLeft,               \* ms left of the cooldown the last gesture action began
  attemptSteps,               \* boundary steps captured since the status became calibrating
  banterWait,                 \* ms since a point was scored whose message is not yet shown, -1 otherwise
  lastEvent,                  \* what the last step did
  lastDt                      \* clamped time step of the last frame, -1 otherwise

appVars ==
  <<gameStatus, gameStatusRef, difficulty, gestureType, playerY, targetPlayerYRef,
    webcamReady, persistentScore, calibrationStep, calibrationRange,
    calibrationHistory, calibrationDataRef, lastValidCalibPositionRef,
    handVisibleRef, gestureActionLockRef>>

banterVars == <<aiMessage, taunts, praises, isFetchingBanter>>

canvasVars ==
  <<ball, ballSpeed, computerY, score, isReady, gameOverInitiated, prevScoreRef,
    pointScoredRef>>

vars == <<appVars, banterVars, canvasVars, timers, cooldownLeft, attemptSteps, banterWait,
         lastEvent, lastDt>>

Statuses == {"idle", "calibrating", "running", "paused", "over"}

Zero == [player |-> 0, computer |-> 0]

Uncalibrated == [min |-> 1000, max |-> 0]

Centre == [x |-> GAME_WIDTH \div 2, y |-> GAME_HEIGHT \div 2]

initialBallSpeedX(d) == DIFFICULTY_SETTINGS[d].initialBallSpeedX

paddleSpeedAI(d) == DIFFICULTY_SETTINGS[d].paddleSpeedAI

\* src/unnamed/part_004:47 (the cap GameCanvas.tsx is specified to respect)
maxBallSpeedX(d) == (initialBallSpeedX(d) * MAX_BALL_SPEED_MULTIPLIER) \div 10

Init ==
  /\ gameStatus = "idle"
  /\ gameStatusRef = "idle"
  /\ difficulty = "medium"
  /\ gestureType = "fist"
  /\ playerY = GAME_HEIGHT \div 2
  /\ targetPlayerYRef = GAME_HEIGHT \div 2
  /\ webcamReady = FALSE
  /\ persistentScore = Zero
  /\ calibrationStep = "start"
  /\ calibrationRange = Uncalibrated
  /\ calibrationHistory = << >>
  /\ calibrationDataRef = Uncalibrated
  /\ lastValidCalibPositionRef = << >>
  /\ handVisibleRef = FALSE
  /\ gestureActionLockRef = FALSE
  /\ aiMessage = << >>
  /\ taunts = FALLBACK_TAUNTS
  /\ praises = FALLBACK_PRAISES
  /\ isFetchingBanter = TRUE
  /\ ball = Centre
  /\ ballSpeed = [vx |-> initialBallSpeedX("medium"), vy |-> 120]
  /\ computerY = GAME_HEIGHT \div 2
  /\ score = Zero
  /\ isReady = FALSE
  /\ gameOverInitiated = FALSE
  /\ prevScoreRef = Zero
  /\ pointScoredRef = FALSE
  /\ timers = << >>
  /\ cooldownLeft = 0
  /\ attemptSteps = {}
  /\ banterWait = -1
  /\ lastEvent = "init"
  /\ lastDt = -1

\* ------------------------------------------------------------------------
\* The React commit.  Shared is the part of the state that the effects of
\* GameCanvas read and write: the canvas state c, the pending timers tm and
\* the persistent tally ps.
\* ------------------------------------------------------------------------
Canvas ==
  [ball |-> ball, ballSpeed |-> ballSpeed, computerY |-> computerY, score |-> score,
   isReady |-> isReady, gameOverInitiated |-> gameOverInitiated,
   prevScoreRef |-> prevScoreRef, pointScoredRef |-> pointScoredRef]

Shared == [c |-> Canvas, tm |-> timers, ps |-> persistentScore]

Timer(kind, rem, direction, speedX) ==
  [kind |-> kind, rem |-> rem, direction |-> direction, speedX |-> speedX]

\* a point effect that re-serves after every point, the winning one included
PointEffectAfterEveryPoint(st, ready, sc, spd, S) ==
  IF st # "running" \/ ~ready THEN S
  ELSE
    LET prev == S.c.prevScoreRef
        justScored == sc.player # prev.player \/ sc.computer # prev.computer
        direction == IF sc.player # prev.player THEN -1 ELSE 1
        tm2 == IF justScored
               THEN Append(S.tm, Timer("resetBall", BALL_RESET_DELAY, direction, spd))
               ELSE S.tm
    IN  [S EXCEPT !.c.prevScoreRef = sc, !.tm = tm2]

\* GameCanvas.tsx 339-357: the effect that re-serves the ball after a point,
\* run in a render whose props and state are (st, ready, sc)
PointEffect(st, ready, sc, spd, S) ==
  IF st # "running" \/ ~ready THEN S
  ELSE
    LET prev == S.c.prevScoreRef
        justScored == sc.player # prev.player \/ sc.computer # prev.computer
        direction == IF sc.player # prev.player THEN -1 ELSE 1
        tm2 == IF justScored /\ sc.player < WINNING_SCORE /\ sc.computer < WINNING_SCORE
               THEN Append(S.tm, Timer("resetBall", BALL_RESET_DELAY, direction, spd))
               ELSE S.tm
    IN  [S EXCEPT !.c.prevScoreRef = sc, !.tm = tm2]

\* GameCanvas.tsx 360-381: the effect that checks for a winner; onGameOver is
\* App.tsx handleGameOver (503-508)
WinnerOf(sc) ==
  IF sc.player >= WINNING_SCORE THEN "player"
  ELSE IF sc.computer >= WINNING_SCORE THEN "computer"
  ELSE "none"

handleGameOver(winner, ps) == [ps EXCEPT ![winner] = @ + 1]

\* a winner check that runs before the reset of a new game is committed
WinnerEffectNotReady(st, ready, sc, S) ==
  IF st # "running" \/ S.c.gameOverInitiated THEN S
  ELSE IF WinnerOf(sc) = "none" THEN S
  ELSE [S EXCEPT !.c.gameOverInitiated = TRUE,
                 !.ps = handleGameOver(WinnerOf(sc), S.ps),
                 !.tm = Append(S.tm, Timer("gameOver", GAME_OVER_DELAY, 0, 0))]

WinnerEffect(st, ready, sc, S) ==
  IF st # "running" \/ ~ready \/ S.c.gameOverInitiated THEN S
  ELSE IF WinnerOf(sc) = "none" THEN S
  ELSE [S EXCEPT !.c.gameOverInitiated = TRUE,
                 !.ps = handleGameOver(WinnerOf(sc), S.ps),
                 !.tm = Append(S.tm, Timer("gameOver", GAME_OVER_DELAY, 0, 0))]

\* GameCanvas.tsx 51-60: resetBall(direction), with the random vertical speed vy
resetBall(direction, spd, vy, c) ==
  [c EXCEPT !.ball = Centre, !.ballSpeed = [vx |-> spd * direction, vy |-> vy]]

\* a reset effect that forgets to zero the score
resetGameStateKeepScore(spd, dir, vy, c) ==
  [resetBall(dir, spd, vy, c) EXCEPT !.computerY = GAME_HEIGHT \div 2, !.isReady = TRUE]

\* GameCanvas.tsx 327-332: the state the reset effect queues when the status
\* has become running
resetGameState(spd, dir, vy, c) ==
  [resetBall(dir, spd, vy, c) EXCEPT !.score = Zero,
                                     !.computerY = GAME_HEIGHT \div 2,
                                     !.isReady = TRUE]

\* GameCanvas.tsx 322-336 followed by 339-381: the commit of a change of the
\* status prop from old to new.  The first render still has the old score and
\* the old isReady; the reset effect writes the refs at once and queues the
\* new state, which a second render commits.  dir and vy are the random
\* choices of the serve.
StatusEffects(old, new, spd, dir, vy, S) ==
  IF new = old THEN S
  ELSE IF new = "running" THEN
    LET S1 == [S EXCEPT !.c.gameOverInitiated = FALSE,
                        !.c.pointScoredRef = FALSE,
                        !.c.prevScoreRef = Zero]
        S2 == PointEffect(new, S.c.isReady, S.c.score, spd, S1)
        S3 == WinnerEffect(new, S.c.isReady, S.c.score, S2)
        S4 == [S3 EXCEPT !.c = resetGameState(spd, dir, vy, S3.c)]
        S5 == PointEffect(new, TRUE, S4.c.score, spd, S4)
    IN  WinnerEffect(new, TRUE, S4.c.score, S5)
  ELSE [S EXCEPT !.c.isReady = FALSE]

SetShared(S) ==
  /\ ball' = S.c.ball
  /\ ballSpeed' = S.c.ballSpeed
  /\ computerY' = S.c.computerY
  /\ score' = S.c.score
  /\ isReady' = S.c.isReady
  /\ gameOverInitiated' = S.c.gameOverInitiated
  /\ prevScoreRef' = S.c.prevScoreRef
  /\ pointScoredRef' = S.c.pointScoredRef
  /\ timers' = S.tm
  /\ persistentScore' = S.ps

Serves == {-1, 1} \X {v * s : v \in ServeSpeedsY, s \in {-1, 1}}

\* a commit in which the landmark callback has set the paddle itself (the
\* early draft, App.tsx 730-741)
SetGameStatusAndPaddle(new, tgt, S) ==
  /\ gameStatus' = new
  /\ gameStatusRef' = new
  /\ IF new # gameStatus /\ new \notin {"running", "paused", "calibrating"}
     THEN targetPlayerYRef' = GAME_HEIGHT \div 2 /\ playerY' = GAME_HEIGHT \div 2
     ELSE targetPlayerYRef' = tgt /\ playerY' = tgt
  /\ IF new = "running" /\ new # gameStatus
     THEN \E sv \in Serves :
            SetShared(StatusEffects(gameStatus, new, initialBallSpeedX(difficulty),
                                    sv[1], sv[2], S))
     ELSE SetShared(StatusEffects(gameStatus, new, initialBallSpeedX(difficulty),
                                  1, INITIAL_BALL_SPEED_Y_MIN, S))

\* App.tsx 198-200 and 467-497 with StatusEffects: setGameStatus(new) and its
\* commit.  The smoothing target tgt is what the callback left in
\* targetPlayerYRef; the paddle is snapped to the centre when the game
\* becomes idle or over.
SetGameStatus(new, tgt, S) ==
  /\ gameStatus' = new
  /\ gameStatusRef' = new
  /\ IF new # gameStatus /\ new \notin {"running", "paused", "calibrating"}
     THEN targetPlayerYRef' = GAME_HEIGHT \div 2 /\ playerY' = GAME_HEIGHT \div 2
     ELSE targetPlayerYRef' = tgt /\ UNCHANGED playerY
  /\ IF new = "running" /\ new # gameStatus
     THEN \E sv \in Serves :
            SetShared(StatusEffects(gameStatus, new, initialBallSpeedX(difficulty),
                                    sv[1], sv[2], S))
     ELSE SetShared(StatusEffects(gameStatus, new, initialBallSpeedX(difficulty),
                                  1, INITIAL_BALL_SPEED_Y_MIN, S))

\* ------------------------------------------------------------------------
\* Clicks on the instruction overlay (src/unnamed/part_006, 399-542)
\* ------------------------------------------------------------------------
\* the observers of the landmark callback keep their values
NoGesture == cooldownLeft' = cooldownLeft /\ attemptSteps' = attemptSteps

\* the banter layer keeps its state
NoBanter == UNCHANGED <<banterVars, banterWait>>

\* a start button that is enabled before the camera has started
ClickStartNotReady ==
  /\ gameStatus = "idle"
  /\ persistentScore.player + persistentScore.computer < MaxTally
  /\ SetGameStatus("running", targetPlayerYRef, Shared)
  /\ lastEvent' = "click_start"
  /\ lastDt' = -1
  /\ NoGesture
  /\ NoBanter
  /\ UNCHANGED <<difficulty, gestureType, webcamReady, calibrationStep, calibrationRange,
                 calibrationHistory, calibrationDataRef, lastValidCalibPositionRef,
                 handVisibleRef, gestureActionLockRef>>

\* "Iniciar Jogo", disabled unless webcamReady; App.tsx startGame
ClickStart ==
  /\ gameStatus = "idle"
  /\ webcamReady
  /\ persistentScore.player + persistentScore.computer < MaxTally
  /\ SetGameStatus("running", targetPlayerYRef, Shared)
  /\ lastEvent' = "click_start"
  /\ lastDt' = -1
  /\ NoGesture
  /\ NoBanter
  /\ UNCHANGED <<difficulty, gestureType, webcamReady, calibrationStep, calibrationRange,
                 calibrationHistory, calibrationDataRef, lastValidCalibPositionRef,
                 handVisibleRef, gestureActionLockRef>>

\* "Calibrar Controles"; App.tsx 621
ClickCalibrate ==
  /\ gameStatus = "idle"
  /\ webcamReady
  /\ Len(calibrationHistory) < MaxHistory
  /\ SetGameStatus("calibrating", targetPlayerYRef, Shared)
  /\ lastEvent' = "click_calibrate"
  /\ lastDt' = -1
  /\ cooldownLeft' = cooldownLeft
  /\ attemptSteps' = {}
  /\ NoBanter
  /\ UNCHANGED <<difficulty, gestureType, webcamReady, calibrationStep, calibrationRange,
                 calibrationHistory, calibrationDataRef, lastValidCalibPositionRef,
                 handVisibleRef, gestureActionLockRef>>

\* "Iniciar" of the calibration screen; App.tsx startCalibrationSequence
ClickStartCalibrationSequence ==
  /\ gameStatus = "calibrating"
  /\ calibrationStep = "start"
  /\ calibrationDataRef' = Uncalibrated
  /\ lastValidCalibPositionRef' = << >>
  /\ handVisibleRef' = FALSE
  /\ calibrationStep' = "up"
  /\ lastEvent' = "click_calibration_sequence"
  /\ lastDt' = -1
  /\ NoGesture
  /\ NoBanter
  /\ UNCHANGED <<gameStatus, gameStatusRef, difficulty, gestureType, playerY,
                 targetPlayerYRef, webcamReady, persistentScore, calibrationRange,
                 calibrationHistory, gestureActionLockRef, canvasVars, timers>>

\* "Jogar Novamente"; App.tsx restartGame
ClickRestart ==
  /\ gameStatus = "over"
  /\ SetGameStatus("idle", targetPlayerYRef, Shared)
  /\ lastEvent' = "click_restart"
  /\ lastDt' = -1
  /\ NoGesture
  /\ NoBanter
  /\ UNCHANGED <<difficulty, gestureType, webcamReady, calibrationStep, calibrationRange,
                 calibrationHistory, calibrationDataRef, lastValidCalibPositionRef,
                 handVisibleRef, gestureActionLockRef>>

\* the difficulty buttons, shown while idle
ClickDifficulty ==
  /\ gameStatus = "idle"
  /\ \E d \in DOMAIN DIFFICULTY_SETTINGS : d # difficulty /\ difficulty' = d
  /\ lastEvent' = "click_difficulty"
  /\ lastDt' = -1
  /\ NoGesture
  /\ NoBanter
  /\ UNCHANGED <<gameStatus, gameStatusRef, gestureType, playerY, targetPlayerYRef,
                 webcamReady, persistentScore, calibrationStep, calibrationRange,
                 calibrationHistory, calibrationDataRef, lastValidCalibPositionRef,
                 handVisibleRef, gestureActionLockRef, canvasVars, timers>>

\* the control-gesture buttons, shown while idle
ClickGestureType ==
  /\ gameStatus = "idle"
  /\ \E g \in {"fist", "pointer"} : g # gestureType /\ gestureType' = g
  /\ lastEvent' = "click_gesture_type"
  /\ lastDt' = -1
  /\ NoGesture
  /\ NoBanter
  /\ UNCHANGED <<gameStatus, gameStatusRef, difficulty, playerY, targetPlayerYRef,
                 webcamReady, persistentScore, calibrationStep, calibrationRange,
                 calibrationHistory, calibrationDataRef, lastValidCalibPositionRef,
                 handVisibleRef, gestureActionLockRef, canvasVars, timers>>

\* App.tsx 436-457: the mount effect starts the camera
CameraStart ==
  /\ ~webcamReady
  /\ webcamReady' = TRUE
  /\ lastEvent' = "camera_start"
  /\ lastDt' = -1
  /\ NoGesture
  /\ NoBanter
  /\ UNCHANGED <<gameStatus, gameStatusRef, difficulty, gestureType, playerY,
                 targetPlayerYRef, persistentScore, calibrationStep, calibrationRange,
                 calibrationHistory, calibrationDataRef, lastValidCalibPositionRef,
                 handVisibleRef, gestureActionLockRef, canvasVars, timers>>

\* ------------------------------------------------------------------------
\* The landmark callback (src/App.tsx onResults, 295-411)
\* ------------------------------------------------------------------------
\* a mapping without the final clamp (the early draft)
mapToPaddleYUnclamped(wy, range) ==
  LET paddleTravelRange == GAME_HEIGHT - PADDLE_HEIGHT
      calibrationSpan == range.max - range.min
  IN  IF calibrationSpan > 100
      THEN Trunc((wy - range.min) * paddleTravelRange, calibrationSpan)
             + PADDLE_HEIGHT \div 2
      ELSE Trunc(wy * paddleTravelRange, 1000) + PADDLE_HEIGHT \div 2

\* a mapping that mirrors the calibrated range
mapToPaddleYMirrored(wy, range) ==
  LET paddleTravelRange == GAME_HEIGHT - PADDLE_HEIGHT
      calibrationSpan == range.max - range.min
      newY == IF calibrationSpan > 100
              THEN Trunc((range.max - wy) * paddleTravelRange, calibrationSpan)
                     + PADDLE_HEIGHT \div 2
              ELSE Trunc(wy * paddleTravelRange, 1000) + PADDLE_HEIGHT \div 2
  IN  Max(minPaddleY, Min(newY, maxPaddleY))

\* App.tsx 357-382: the paddle target for a wrist at height wy (thousandths)
\* under the calibration range; pixels in units of 1/U
mapToPaddleY(wy, range) ==
  LET paddleTravelRange == GAME_HEIGHT - PADDLE_HEIGHT
      calibrationSpan == range.max - range.min
      newY == IF calibrationSpan > 100
              THEN Trunc((wy - range.min) * paddleTravelRange, calibrationSpan)
                     + PADDLE_HEIGHT \div 2
              ELSE Trunc(wy * paddleTravelRange, 1000) + PADDLE_HEIGHT \div 2
  IN  IF wy = NaN THEN NaN ELSE Max(minPaddleY, Min(newY, maxPaddleY))

\* gesture actions that do not look at the lock
GestureActionUnlocked(gesture, statusRef, lock) ==
  IF gesture = "spread"
  THEN IF statusRef = "running" THEN "pause"
       ELSE IF statusRef = "paused" THEN "resume"
       ELSE "none"
  ELSE IF gesture = "thumbs_down" THEN "reset"
  ELSE IF gesture = "thumbs_up" /\ statusRef = "idle" THEN "start"
  ELSE "none"

\* App.tsx 334-355: the action the gesture triggers, "none" under the lock
GestureAction(gesture, statusRef, lock) ==
  IF lock THEN "none"
  ELSE IF gesture = "spread"
       THEN IF statusRef = "running" THEN "pause"
            ELSE IF statusRef = "paused" THEN "resume"
            ELSE "none"
  ELSE IF gesture = "thumbs_down" THEN "reset"
  ELSE IF gesture = "thumbs_up" /\ statusRef = "idle" THEN "start"
  ELSE "none"

\* the cooldown each action starts
CooldownOf(act) ==
  CASE act \in {"pause", "resume"} -> PAUSE_COOLDOWN
    [] act = "reset" -> RESET_COOLDOWN
    [] act = "start" -> START_COOLDOWN
    [] OTHER -> 0

\* the status each action sets
StatusAfter(act, status) ==
  CASE act = "pause" -> "paused"
    [] act = "resume" -> "running"
    [] act = "reset" -> "idle"
    [] act = "start" -> "running"
    [] OTHER -> status

\* the cooldown the specification requires after each action: what the
\* observer cooldownLeft counts down
RequiredCooldown(act) == IF act \in {"pause", "resume"} THEN 1000 ELSE 2000

\* an acceptance test that only asks for min < max
orderedRange(r) == r.min < r.max

\* App.tsx 552-576: a captured range is accepted
ValidRange(r) == r.min < r.max /\ r.max - r.min > 100

RECURSIVE SumOf(_, _)
SumOf(h, f) == IF h = << >> THEN 0 ELSE h[1][f] + SumOf(Tail(h), f)

\* a finished calibration that replaces the range by the latest capture
latestRange(h) == h[Len(h)]

\* App.tsx 563-567: the average of all calibrations
AverageRange(h) ==
  [min |-> Trunc(SumOf(h, "min"), Len(h)), max |-> Trunc(SumOf(h, "max"), Len(h))]

\* a finished calibration whose step is never put back
stepLeftFinished(up, down, step) ==
  IF up THEN "down" ELSE IF down THEN "finished" ELSE step

\* App.tsx 394-404 and 553-555: the calibration step after a capture; the
\* effect of the step 'finished' puts it back to 'start' in the same commit
stepAfterCapture(up, down, step) ==
  IF up THEN "down" ELSE IF down THEN "start" ELSE step

OnResults(frame) ==
  LET handIsCurrentlyVisible == Len(frame) > 0
      handWasPreviouslyVisible == handVisibleRef
      gesture == IF handIsCurrentlyVisible THEN detectGesture(frame) ELSE "unknown"
      act == IF handIsCurrentlyVisible
             THEN GestureAction(gesture, gameStatusRef, gestureActionLockRef)
             ELSE "none"
      tgt == IF handIsCurrentlyVisible /\ gesture = gestureType
             THEN mapToPaddleY(frame[1].y, calibrationRange)
             ELSE targetPlayerYRef
      \* 387-410: the calibration state machine, on the frame the hand leaves
      capture == /\ gameStatusRef = "calibrating"
                 /\ handWasPreviouslyVisible /\ ~handIsCurrentlyVisible
      hasValidY == lastValidCalibPositionRef # << >>
      lastValidY == lastValidCalibPositionRef[1]
      up == /\ capture /\ calibrationStep = "up"
            /\ hasValidY /\ Lt(lastValidY, 500)
      down == /\ capture /\ ~up /\ calibrationStep = "down"
              /\ hasValidY /\ Gt(lastValidY, 500)
      data == IF up THEN [calibrationDataRef EXCEPT !.min = lastValidY]
              ELSE IF down THEN [calibrationDataRef EXCEPT !.max = lastValidY]
              ELSE calibrationDataRef
      \* 552-576: the effect of calibrationStep = 'finished'
      newHistory == Append(calibrationHistory, data)
      S0 == [Shared EXCEPT
               !.tm = IF act = "none" THEN @
                      ELSE Append(@, Timer("lock", CooldownOf(act), 0, 0)),
               !.ps = IF act = "reset" THEN Zero ELSE @]
  IN  /\ webcamReady
      /\ act \in {"start", "resume"} =>
           persistentScore.player + persistentScore.computer < MaxTally
      /\ handVisibleRef' = handIsCurrentlyVisible
      /\ NoBanter
      /\ lastValidCalibPositionRef' =
           IF capture THEN << >>
           ELSE IF handIsCurrentlyVisible /\ gameStatusRef = "calibrating" /\ gesture = "fist"
           THEN <<frame[1].y>>
           ELSE lastValidCalibPositionRef
      /\ gestureActionLockRef' = (gestureActionLockRef \/ act # "none")
      /\ calibrationDataRef' = data
      /\ calibrationStep' = stepAfterCapture(up, down, calibrationStep)
      /\ calibrationHistory' =
           IF act = "reset" THEN << >>
           ELSE IF down /\ ValidRange(data) THEN newHistory
           ELSE calibrationHistory
      /\ calibrationRange' =
           IF act = "reset" THEN Uncalibrated
           ELSE IF down /\ ValidRange(data) THEN AverageRange(newHistory)
           ELSE calibrationRange
      /\ SetGameStatus(IF down THEN "idle" ELSE StatusAfter(act, gameStatus), tgt, S0)
      /\ cooldownLeft' = IF act = "none" THEN cooldownLeft ELSE RequiredCooldown(act)
      /\ attemptSteps' = attemptSteps \cup (IF up THEN {"up"} ELSE IF down THEN {"down"} ELSE {})
      /\ lastEvent' = IF act # "none" THEN act
                      ELSE IF up THEN "calibrated_top"
                      ELSE IF down THEN "calibration_finished"
                      ELSE "landmarks"
      /\ lastDt' = -1
      /\ UNCHANGED <<difficulty, gestureType, webcamReady>>

\* a status gesture, shown at any moment
GestureLandmarks == \E p \in GesturePoses : OnResults(Hand(p, 500))

\* the control hand held at one height before a game is started
PresetLandmarks ==
  /\ gameStatus = "idle"
  /\ \E wy \in WristYs : OnResults(Hand(gestureType, wy))

\* the hand of the calibration procedure: a fist at some height, or no hand,
\* shown once the paddle has caught up with the hand's last position
CalibrationLandmarks ==
  /\ gameStatus = "calibrating"
  /\ playerY = targetPlayerYRef
  /\ \E f \in {NoHand} \cup {Hand("fist", wy) : wy \in CalibrationWristYs} : OnResults(f)

\* ------------------------------------------------------------------------
\* One display frame: the requestAnimationFrame callbacks of the smoothing
\* loop (App.tsx 467-497) and of the game loop (GameCanvas.tsx 183-319)
\* ------------------------------------------------------------------------
\* quotient truncated toward zero, any non-zero divisor
Quot(a, b) == IF b > 0 THEN Trunc(a, b) ELSE Trunc(-a, -b)

\* a smoothing step that never snaps to the target
smoothWithoutSnap(prevY, targetY) == prevY + Trunc((targetY - prevY) * 2, 10)

\* App.tsx 471-483: one step of the smoothing loop (smoothingFactor 0.2,
\* snap below 0.5 px)
smoothPaddleMovement(prevY, targetY) ==
  IF prevY = NaN \/ targetY = NaN THEN NaN
  ELSE IF 2 * Abs(targetY - prevY) < U THEN targetY
  ELSE prevY + Trunc((targetY - prevY) * 2, 10)

\* GameCanvas.tsx 208-217: the AI paddle
MoveComputer(prevY, ballY, speedAI, dt) ==
  LET diff == ballY - prevY
      newY == IF Abs(diff) > AI_DEAD_ZONE
              THEN prevY + Sign(diff) * Trunc(speedAI * dt * U, 1000)
              ELSE prevY
  IN  Max(minPaddleY, Min(newY, maxPaddleY))

\* GameCanvas.tsx 248-255: the response of the player paddle to a hit at
\* intersectionY
PlayerBounce(speed, pY, intersectionY) ==
  [vx |-> -Trunc(speed.vx * 105, 100),
   vy |-> Trunc((intersectionY - pY) * PADDLE_BOUNCE_VY_MULTIPLIER, PADDLE_HEIGHT \div 2)]

\* GameCanvas.tsx 271-275: the response of the computer paddle
ComputerBounce(speed) == [speed EXCEPT !.vx = -speed.vx]

\* GameCanvas.tsx 238-248 and 261-271: the swept test of the motion segment
\* from prev to next against a collision plane and a paddle centred at pY
\* (dx is not 0 here)
IntersectionY(prev, next, planeX) ==
  prev.y + Quot((next.y - prev.y) * (planeX - prev.x), next.x - prev.x)

\* the point-sample test: the ball's new position is compared with the
\* paddle's box
HitsPaddlePointSample(prev, next, planeX, pY) ==
  /\ Abs(next.x - planeX) <= PADDLE_WIDTH
  /\ next.y >= pY - PADDLE_HEIGHT \div 2
  /\ next.y <= pY + PADDLE_HEIGHT \div 2

HitsPaddle(prev, next, planeX, pY) ==
  /\ next.x # prev.x
  /\ IntersectionY(prev, next, planeX) >= pY - PADDLE_HEIGHT \div 2
  /\ IntersectionY(prev, next, planeX) <= pY + PADDLE_HEIGHT \div 2

\* a scoring test that does not look at the lock (the point-sample draft)
pointScoredNoLock(out, lock) == out # "none"

\* GameCanvas.tsx 281 and 288: a ball that is out scores unless the lock is set
pointScored(out, lock) == out # "none" /\ ~lock

\* GameCanvas.tsx 280-298: the side that scores when the ball is at x
outOfField(x) == IF x < 0 THEN "computer" ELSE IF x > GAME_WIDTH THEN "player" ELSE "none"

\* a wall bounce that leaves the ball where the step took it (the draft
\* src/unnamed/part_005 97-99 only negates vy)
wallYUnclamped(y) == y

\* GameCanvas.tsx 219-228: the y of a ball that has passed a wall is put on
\* the wall
wallY(y) ==
  IF y > GAME_HEIGHT - BALL_RADIUS THEN GAME_HEIGHT - BALL_RADIUS
  ELSE IF y < BALL_RADIUS THEN BALL_RADIUS
  ELSE y

\* GameCanvas.tsx 188-298: the game loop for a clamped time step dt > 0;
\* the result is the canvas state and what happened
gameLoop(dt, c, pY, speedAI) ==
  LET moved == [x |-> c.ball.x + Trunc(c.ballSpeed.vx * dt * U, 1000),
                y |-> c.ball.y + Trunc(c.ballSpeed.vy * dt * U, 1000)]
      \* 2. walls
      wall == moved.y > GAME_HEIGHT - BALL_RADIUS \/ moved.y < BALL_RADIUS
      nb1 == [moved EXCEPT !.y = wallY(moved.y)]
      ns1 == IF wall THEN [c.ballSpeed EXCEPT !.vy = -c.ballSpeed.vy] ELSE c.ballSpeed
      \* 3. player paddle
      playerHit == /\ ns1.vx < 0
                   /\ nb1.x <= playerCollisionPlaneX
                   /\ c.ball.x > playerCollisionPlaneX
                   /\ HitsPaddle(c.ball, nb1, playerCollisionPlaneX, pY)
      nb2 == IF playerHit THEN [nb1 EXCEPT !.x = playerCollisionPlaneX] ELSE nb1
      ns2 == IF playerHit
             THEN PlayerBounce(ns1, pY, IntersectionY(c.ball, nb1, playerCollisionPlaneX))
             ELSE ns1
      \* computer paddle
      computerHit == /\ ns2.vx > 0
                     /\ nb2.x >= computerCollisionPlaneX
                     /\ c.ball.x < computerCollisionPlaneX
                     /\ HitsPaddle(c.ball, nb2, computerCollisionPlaneX, c.computerY)
      nb3 == IF computerHit THEN [nb2 EXCEPT !.x = computerCollisionPlaneX] ELSE nb2
      ns3 == IF computerHit THEN ComputerBounce(ns2) ELSE ns2
      \* 4. scoring
      out == outOfField(nb3.x)
      scored == pointScored(out, c.pointScoredRef)
      c1 == [c EXCEPT !.computerY = MoveComputer(c.computerY, c.ball.y, speedAI, dt)]
      c2 == IF out = "none" THEN [c1 EXCEPT !.ball = nb3, !.ballSpeed = ns3]
            ELSE IF scored
            THEN [c1 EXCEPT !.pointScoredRef = TRUE, !.score[out] = @ + 1]
            ELSE c1
  IN  [c |-> c2,
       event |-> IF scored THEN "point_" \o out
                 ELSE IF out # "none" THEN "out"
                 ELSE IF playerHit THEN "hit_player"
                 ELSE IF computerHit THEN "hit_computer"
                 ELSE IF wall THEN "wall"
                 ELSE "move"]

\* App.tsx 510-533 handlePointScored, up to its setTimeout: the timer that
\* would take the message down is cancelled, and the timer that shows the
\* next message is started; its callback has captured the scorer and the
\* message lists of this render
BanterTimer(scorer, messages) ==
  [kind |-> "banter", rem |-> BANTER_DELAY, scorer |-> scorer, messages |-> messages]

Referenced(t) == t.kind = "clearBanter" /\ t.ref

NotReferenced(t) == ~Referenced(t)

\* a handlePointScored that does not cancel the pending dismissal
handlePointScoredKeepsTimer(scorer, tm) ==
  Append(tm, BanterTimer(scorer, IF scorer = "computer" THEN taunts ELSE praises))

handlePointScored(scorer, tm) ==
  Append(SelectSeq(tm, NotReferenced),
         BanterTimer(scorer, IF scorer = "computer" THEN taunts ELSE praises))

\* time passes: every pending timer comes gap closer
Elapse(tm, gap) == [i \in 1..Len(tm) |-> [tm[i] EXCEPT !.rem = @ - gap]]

\* a timer fires when it is due, so no frame skips over a pending deadline
MayElapse(gap) == \A i \in 1..Len(timers) : timers[i].rem >= gap

\* a time step that is the whole gap between two frames
unclampedDt(gap) == Max(0, gap)

\* a clamp at twice the limit
clampDtLate(gap) == Max(0, Min(gap, 2 * MAX_DT))

\* GameCanvas.tsx 193: dt = Math.max(0, Math.min(dt, 0.05))
clampDt(gap) == Max(0, Min(gap, MAX_DT))

\* GameCanvas.tsx 188-311 with App.tsx 467-497: one display frame, for the
\* time step dt and the result r of the game loop for that step
FrameStep(gap, banter, dt, r) ==
  LET running == gameStatus = "running" /\ dt > 0
      scoredNow == banter /\ running /\ r.event \in {"point_player", "point_computer"}
      scorer == IF r.event = "point_player" THEN "player" ELSE "computer"
      S0 == [Shared EXCEPT !.tm = IF scoredNow
                                  THEN handlePointScored(scorer, Elapse(timers, gap))
                                  ELSE Elapse(timers, gap)]
      S1 == IF running THEN [S0 EXCEPT !.c = r.c] ELSE S0
      \* the commit of a score update runs the point and winner effects
      S2 == IF running /\ S1.c.score # score
            THEN WinnerEffect(gameStatus, isReady, S1.c.score,
                   PointEffect(gameStatus, isReady, S1.c.score,
                               initialBallSpeedX(difficulty), S1))
            ELSE S1
  IN  /\ MayElapse(gap)
      /\ Abs(ballSpeed.vx) <= MaxSpeedX
      /\ SetShared(S2)
      /\ playerY' = IF gameStatus \in {"running", "paused", "calibrating"}
                    THEN smoothPaddleMovement(playerY, targetPlayerYRef)
                    ELSE playerY
      /\ cooldownLeft' = Max(0, cooldownLeft - gap)
      /\ attemptSteps' = attemptSteps
      /\ aiMessage' = IF scoredNow THEN << >> ELSE aiMessage
      /\ banterWait' = IF scoredNow THEN 0
                       ELSE IF banterWait >= 0 THEN banterWait + gap
                       ELSE banterWait
      /\ UNCHANGED <<taunts, praises, isFetchingBanter>>
      /\ lastEvent' = IF running THEN r.event ELSE "frame"
      /\ lastDt' = dt
      /\ UNCHANGED <<gameStatus, gameStatusRef, difficulty, gestureType, targetPlayerYRef,
                     webcamReady, calibrationStep, calibrationRange, calibrationHistory,
                     calibrationDataRef, lastValidCalibPositionRef, handVisibleRef,
                     gestureActionLockRef>>

\* GameCanvas.tsx 188-197: the frame that comes gap milliseconds after the
\* last one runs the game loop with the clamped time step
FrameOf(gap, banter) ==
  FrameStep(gap, banter, clampDt(gap),
            gameLoop(clampDt(gap), Canvas, playerY, paddleSpeedAI(difficulty)))

\* The banter layer is written by handlePointScored and its timers only, and
\* no other handler reads it.  The specifications of the game follow the
\* frames without it: there aiMessage stays as it is and no banter timer is
\* started.
Frame(gap) == FrameOf(gap, FALSE)

\* the frame with the banter layer, at the clamp
BanterFrame == FrameOf(MAX_DT, TRUE)

DisplayFrame == \E gap \in FrameGaps : Frame(gap)

\* display frames at the slowest rate the physics follows without clamping
SteadyFrame == Frame(MAX_DT)

\* ------------------------------------------------------------------------
\* Expired timers.  The due timer scheduled first fires first.
\* ------------------------------------------------------------------------
Due(i) ==
  /\ i \in 1..Len(timers)
  /\ timers[i].rem = 0
  /\ \A j \in 1..(i - 1) : timers[j].rem # 0

Remove(tm, i) == [j \in 1..(Len(tm) - 1) |-> IF j < i THEN tm[j] ELSE tm[j + 1]]

\* a release callback that leaves the lock set
LockTimerFireKeepsLock ==
  \E i \in 1..Len(timers) :
    /\ Due(i)
    /\ timers[i].kind = "lock"
    /\ gestureActionLockRef' = gestureActionLockRef
    /\ timers' = Remove(timers, i)
    /\ lastEvent' = "unlock"
    /\ lastDt' = -1
    /\ NoGesture
    /\ NoBanter
    /\ UNCHANGED <<gameStatus, gameStatusRef, difficulty, gestureType, playerY,
                   targetPlayerYRef, webcamReady, persistentScore, calibrationStep,
                   calibrationRange, calibrationHistory, calibrationDataRef,
                   lastValidCalibPositionRef, handVisibleRef, canvasVars>>

\* App.tsx 340, 344, 349, 353: the cooldown ends
LockTimerFire ==
  \E i \in 1..Len(timers) :
    /\ Due(i)
    /\ timers[i].kind = "lock"
    /\ gestureActionLockRef' = FALSE
    /\ timers' = Remove(timers, i)
    /\ lastEvent' = "unlock"
    /\ lastDt' = -1
    /\ NoGesture
    /\ NoBanter
    /\ UNCHANGED <<gameStatus, gameStatusRef, difficulty, gestureType, playerY,
                   targetPlayerYRef, webcamReady, persistentScore, calibrationStep,
                   calibrationRange, calibrationHistory, calibrationDataRef,
                   lastValidCalibPositionRef, handVisibleRef, canvasVars>>

\* GameCanvas.tsx 349-352: the ball is served again and scoring is unlocked
ResetBallTimerFire ==
  \E i \in 1..Len(timers), sv \in Serves :
    /\ Due(i)
    /\ timers[i].kind = "resetBall"
    /\ sv[1] = timers[i].direction
    /\ SetShared([Shared EXCEPT
                    !.c = [resetBall(sv[1], timers[i].speedX, sv[2], Canvas)
                             EXCEPT !.pointScoredRef = FALSE],
                    !.tm = Remove(timers, i)])
    /\ lastEvent' = "serve"
    /\ lastDt' = -1
    /\ NoGesture
    /\ NoBanter
    /\ UNCHANGED <<gameStatus, gameStatusRef, difficulty, gestureType, playerY,
                   targetPlayerYRef, webcamReady, calibrationStep, calibrationRange,
                   calibrationHistory, calibrationDataRef, lastValidCalibPositionRef,
                   handVisibleRef, gestureActionLockRef>>

\* Math.floor(Math.random() * messages.length) for a random number r / 1000
RandomIndex(r, messages) == (r * Len(messages)) \div 1000

\* App.tsx 517-532: the delayed callback of handlePointScored shows a message
\* drawn from the captured list and starts the timer that takes it down
ShowMessage(r) ==
  \E i \in 1..Len(timers) :
    /\ Due(i)
    /\ timers[i].kind = "banter"
    /\ aiMessage' = <<timers[i].messages[RandomIndex(r, timers[i].messages) + 1]>>
    /\ timers' = Append([j \in 1..(Len(timers) - 1) |->
                            LET t == Remove(timers, i)[j]
                            IN  IF t.kind = "clearBanter" THEN [t EXCEPT !.ref = FALSE] ELSE t],
                        [kind |-> "clearBanter", rem |-> BANTER_DURATION, ref |-> TRUE])
    /\ banterWait' = -1
    /\ lastEvent' = "banter_shown"
    /\ lastDt' = -1
    /\ NoGesture
    /\ UNCHANGED <<appVars, taunts, praises, isFetchingBanter, canvasVars>>

\* a delayed callback that shows the message only once the service has
\* answered, and looks again after the same delay while it has not
BanterTimerFireAfterAnswer(r) ==
  IF ~isFetchingBanter THEN ShowMessage(r)
  ELSE \E i \in 1..Len(timers) :
         /\ Due(i)
         /\ timers[i].kind = "banter"
         /\ timers' = Append(Remove(timers, i), [timers[i] EXCEPT !.rem = BANTER_DELAY])
         /\ lastEvent' = "banter_waiting"
         /\ lastDt' = -1
         /\ NoGesture
         /\ UNCHANGED <<appVars, banterVars, banterWait, canvasVars>>

BanterTimerFire(r) == ShowMessage(r)

ShowBanter == \E r \in RandomNumbers : BanterTimerFire(r)

\* App.tsx 24-64 generateAIResponses: what the request to the service
\* resolves to.  A response is an error, or JSON whose lists may be missing or
\* empty (<< >>).
generateAIResponses(response) ==
  IF ~response.ok
  THEN [taunts |-> FALLBACK_TAUNTS, praises |-> FALLBACK_PRAISES, success |-> FALSE]
  ELSE [taunts |-> IF Len(response.taunts) > 0 THEN response.taunts ELSE FALLBACK_TAUNTS,
        praises |-> IF Len(response.praises) > 0 THEN response.praises ELSE FALLBACK_PRAISES,
        success |-> TRUE]

\* App.tsx 211-232 handleFetchBanter, after its await: the service has
\* answered, or the request has failed (the notice of a failure is not
\* followed here)
ServiceAnswer ==
  /\ isFetchingBanter
  /\ \E response \in Responses :
       /\ taunts' = generateAIResponses(response).taunts
       /\ praises' = generateAIResponses(response).praises
  /\ isFetchingBanter' = FALSE
  /\ lastEvent' = "service_answer"
  /\ lastDt' = -1
  /\ NoGesture
  /\ UNCHANGED <<appVars, aiMessage, canvasVars, timers, banterWait>>

\* part_006 230-236: the button that asks the service for new messages;
\* App.tsx 211-214 handleFetchBanter, up to its await
ClickFetchBanter ==
  /\ gameStatus # "running"
  /\ webcamReady
  /\ ~isFetchingBanter
  /\ isFetchingBanter' = TRUE
  /\ lastEvent' = "click_fetch_banter"
  /\ lastDt' = -1
  /\ NoGesture
  /\ UNCHANGED <<appVars, aiMessage, taunts, praises, canvasVars, timers, banterWait>>

\* App.tsx 528-531: the message is taken down
ClearBanterTimerFire ==
  \E i \in 1..Len(timers) :
    /\ Due(i)
    /\ timers[i].kind = "clearBanter"
    /\ aiMessage' = << >>
    /\ timers' = [j \in 1..(Len(timers) - 1) |->
                    LET t == Remove(timers, i)[j]
                    IN  IF t.kind = "clearBanter" THEN [t EXCEPT !.ref = FALSE] ELSE t]
    /\ banterWait' = banterWait
    /\ lastEvent' = "banter_cleared"
    /\ lastDt' = -1
    /\ NoGesture
    /\ UNCHANGED <<appVars, taunts, praises, isFetchingBanter, canvasVars>>

\* a delayed update that is dropped unless the game is still running
GameOverTimerFireIfRunning ==
  \E i \in 1..Len(timers) :
    /\ Due(i)
    /\ timers[i].kind = "gameOver"
    /\ SetGameStatus(IF gameStatus = "running" THEN "over" ELSE gameStatus,
                     targetPlayerYRef, [Shared EXCEPT !.tm = Remove(timers, i)])
    /\ lastEvent' = "game_over"
    /\ lastDt' = -1
    /\ NoGesture
    /\ NoBanter
    /\ UNCHANGED <<difficulty, gestureType, webcamReady, calibrationStep, calibrationRange,
                   calibrationHistory, calibrationDataRef, lastValidCalibPositionRef,
                   handVisibleRef, gestureActionLockRef>>

\* GameCanvas.tsx 377-379: the delayed setGameStatus('over')
GameOverTimerFire ==
  \E i \in 1..Len(timers) :
    /\ Due(i)
    /\ timers[i].kind = "gameOver"
    /\ SetGameStatus("over", targetPlayerYRef, [Shared EXCEPT !.tm = Remove(timers, i)])
    /\ lastEvent' = "game_over"
    /\ lastDt' = -1
    /\ NoGesture
    /\ NoBanter
    /\ UNCHANGED <<difficulty, gestureType, webcamReady, calibrationStep, calibrationRange,
                   calibrationHistory, calibrationDataRef, lastValidCalibPositionRef,
                   handVisibleRef, gestureActionLockRef>>

\* ------------------------------------------------------------------------
\* Specifications
\* ------------------------------------------------------------------------
\* A session driven by buttons and status gestures; the paddle is not moved.
Next ==
  \/ CameraStart
  \/ ClickStart
  \/ ClickRestart
  \/ GestureLandmarks
  \/ DisplayFrame
  \/ LockTimerFire
  \/ ResetBallTimerFire
  \/ GameOverTimerFire

Spec == Init /\ [][Next]_vars

\* Games of every difficulty, played with the control hand held where it was
\* before the start.
NextGame ==
  \/ CameraStart
  \/ ClickDifficulty
  \/ ClickStart
  \/ ClickRestart
  \/ PresetLandmarks
  \/ SteadyFrame
  \/ ResetBallTimerFire
  \/ GameOverTimerFire

SpecGame == Init /\ [][NextGame]_vars

\* Calibrations and games played with the control hand held where it was
\* before the start.
NextCalibration ==
  \/ CameraStart
  \/ ClickGestureType
  \/ ClickCalibrate
  \/ ClickStartCalibrationSequence
  \/ CalibrationLandmarks
  \/ ClickStart
  \/ ClickRestart
  \/ PresetLandmarks
  \/ SteadyFrame
  \/ ResetBallTimerFire
  \/ GameOverTimerFire

SpecCalibration == Init /\ [][NextCalibration]_vars

\* One game played to its end; status gestures are shown between the point
\* that decides it and the delayed status update.
DecidingGestures ==
  /\ \E i \in 1..Len(timers) : timers[i].kind = "gameOver"
  /\ GestureLandmarks

NextEnd ==
  \/ CameraStart
  \/ ClickStart
  \/ DecidingGestures
  \/ SteadyFrame
  \/ LockTimerFire
  \/ ResetBallTimerFire
  \/ GameOverTimerFire

SpecEnd == Init /\ [][NextEnd]_vars

\* The browser keeps delivering display frames and runs every expired timer.
Fairness ==
  /\ WF_vars(SteadyFrame)
  /\ WF_vars(LockTimerFire)
  /\ WF_vars(ResetBallTimerFire)
  /\ WF_vars(GameOverTimerFire)

FairSpecEnd == SpecEnd /\ Fairness

\* the hand of repeated calibrations
RecalibrationLandmarks ==
  /\ gameStatus = "calibrating"
  /\ playerY = targetPlayerYRef
  /\ \E f \in {NoHand} \cup {Hand("fist", wy) : wy \in CloseWristYs} : OnResults(f)

\* A reset gesture shown during a calibration.
ResetWhileCalibrating ==
  /\ gameStatus = "calibrating"
  /\ OnResults(Hand("thumbs_down", 500))

\* Calibrations, some of them interrupted by the reset gesture.
NextRecalibration ==
  \/ CameraStart
  \/ ClickCalibrate
  \/ ClickStartCalibrationSequence
  \/ RecalibrationLandmarks
  \/ ResetWhileCalibrating
  \/ SteadyFrame
  \/ LockTimerFire

SpecRecalibration == Init /\ [][NextRecalibration]_vars

\* calibration ranges that can be active
MappingRanges ==
  { Uncalibrated, [min |-> 200, max |-> 800], [min |-> 330, max |-> 670],
    [min |-> 450, max |-> 551], [min |-> 0, max |-> 1000] }

\* The position mapping on its own: the application idle with the camera
\* started and some calibration range active, the control hand shown at any
\* height.
InitMapping ==
  /\ gameStatus = "idle"
  /\ gameStatusRef = "idle"
  /\ difficulty = "medium"
  /\ gestureType = "fist"
  /\ playerY = GAME_HEIGHT \div 2
  /\ targetPlayerYRef = GAME_HEIGHT \div 2
  /\ webcamReady = TRUE
  /\ persistentScore = Zero
  /\ calibrationStep = "start"
  /\ calibrationRange \in MappingRanges
  /\ calibrationHistory = IF calibrationRange = Uncalibrated THEN << >>
                          ELSE <<calibrationRange>>
  /\ calibrationDataRef = calibrationRange
  /\ lastValidCalibPositionRef = << >>
  /\ handVisibleRef = FALSE
  /\ gestureActionLockRef = FALSE
  /\ aiMessage = << >>
  /\ taunts = FALLBACK_TAUNTS
  /\ praises = FALLBACK_PRAISES
  /\ isFetchingBanter = TRUE
  /\ ball = Centre
  /\ ballSpeed = [vx |-> initialBallSpeedX("medium"), vy |-> 120]
  /\ computerY = GAME_HEIGHT \div 2
  /\ score = Zero
  /\ isReady = FALSE
  /\ gameOverInitiated = FALSE
  /\ prevScoreRef = Zero
  /\ pointScoredRef = FALSE
  /\ timers = << >>
  /\ cooldownLeft = 0
  /\ attemptSteps = {}
  /\ banterWait = -1
  /\ lastEvent = "init"
  /\ lastDt = -1

MappingLandmarks == \E wy \in RawYs : OnResults(Hand(gestureType, wy))

NextMapping ==
  \/ ClickGestureType
  \/ MappingLandmarks

SpecMapping == InitMapping /\ [][NextMapping]_vars

\* The smoothing loop on its own: during a calibration the control hand is
\* shown at a new height each time the paddle has come to rest.
RestingLandmarks ==
  /\ gameStatus = "calibrating"
  /\ playerY = targetPlayerYRef
  /\ \E wy \in WristYs : OnResults(Hand(gestureType, wy))

NextSmoothing ==
  \/ CameraStart
  \/ ClickCalibrate
  \/ RestingLandmarks
  \/ DisplayFrame

SpecSmoothing == Init /\ [][NextSmoothing]_vars

\* The browser keeps delivering display frames.
FairSpecSmoothing == SpecSmoothing /\ WF_vars(DisplayFrame)

\* ------------------------------------------------------------------------
\* Claims
\* ------------------------------------------------------------------------
\* C1: while the status stays running neither the player's nor the
\* computer's score decreases, and the step that takes the status from idle
\* to running leaves both scores at 0.
C1_ScoreMonotone ==
  [][ /\ (gameStatus = "running" /\ gameStatus' = "running")
           => (score'.player >= score.player /\ score'.computer >= score.computer)
      /\ (gameStatus = "idle" /\ gameStatus' = "running") => score' = Zero ]_vars

\* a second game, started after a finished one, in which points were scored
C1_Witness ==
  /\ gameStatus = "running"
  /\ persistentScore.computer = 1
  /\ score.computer = 2

\* C2: whenever the status is running and a score has reached WINNING_SCORE,
\* the status eventually becomes over.
C2_EventuallyOver ==
  (gameStatus = "running" /\ WinnerOf(score) # "none") ~> (gameStatus = "over")

\* the delayed status update has put a decided game into over although a
\* gesture acted on the status meanwhile (its cooldown is still running)
C2_Witness ==
  /\ gameStatus = "over"
  /\ lastEvent = "game_over"
  /\ WinnerOf(score) # "none"
  /\ gestureActionLockRef

\* C3: the persistent tally changes only in the step in which a score reaches
\* WINNING_SCORE (or is zeroed by a reset), and in that step the tally of the
\* side whose score reached the threshold grows by exactly 1 and the other
\* side's tally is unchanged: one onGameOver per won game, with its winner.
Sides == {"player", "computer"}

ReachesThreshold(w) == score[w] = WINNING_SCORE - 1 /\ score'[w] = WINNING_SCORE

C3_OneGameOverPerWin ==
  [][ /\ (persistentScore' # persistentScore /\ lastEvent' # "reset")
           => \E w \in Sides : ReachesThreshold(w)
      /\ \A w \in Sides :
           ReachesThreshold(w)
             => persistentScore' = [persistentScore EXCEPT ![w] = @ + 1] ]_vars

\* two finished games, one won by each side
C3_Witness ==
  /\ persistentScore = [player |-> 1, computer |-> 1]
  /\ gameStatus = "over"



\* C4: a tick adds a point only when the ball's new position is outside the
\* field and the scoring lock is free, and then adds exactly one point, to
\* the computer when the new x is below 0 and to the player when it is above
\* GAME_WIDTH, and sets the lock; while the lock is set no tick adds a point;
\* a tick that finds the ball behind the player's plane with a new x below 0
\* (or behind the computer's plane with a new x above GAME_WIDTH) and the lock
\* free adds the point.
TickDt == lastDt'

IsTick == gameStatus = "running" /\ TickDt > 0

ProjectedX == ball.x + Trunc(ballSpeed.vx * TickDt * U, 1000)

AddsPoint(w) ==
  /\ score'[w] = score[w] + 1
  /\ \A o \in Sides \ {w} : score'[o] = score[o]

C4_OnePointPerExit ==
  [][ /\ (score' # score /\ score' # Zero)
           => /\ IsTick
              /\ ~pointScoredRef /\ pointScoredRef'
              /\ \/ ProjectedX < 0 /\ AddsPoint("computer")
                 \/ ProjectedX > GAME_WIDTH /\ AddsPoint("player")
      /\ (pointScoredRef /\ pointScoredRef') => score' = score
      /\ (IsTick /\ ~pointScoredRef /\ ProjectedX < 0 /\ ball.x <= playerCollisionPlaneX)
           => AddsPoint("computer")
      /\ (IsTick /\ ~pointScoredRef /\ ProjectedX > GAME_WIDTH
             /\ ball.x >= computerCollisionPlaneX)
           => AddsPoint("player") ]_vars

\* both sides have scored, and the last tick found the ball still outside
\* the field with the lock set
C4_Witness ==
  /\ lastEvent = "out"
  /\ pointScoredRef
  /\ score.player >= 1
  /\ score.computer >= 1

\* C5: the ball's horizontal speed never exceeds initialBallSpeedX times
\* MAX_BALL_SPEED_MULTIPLIER of the selected difficulty.
C5_SpeedCap == Abs(ballSpeed.vx) <= maxBallSpeedX(difficulty)

\* C6: a tick (dt at most the clamp) whose motion segment crosses a paddle's
\* collision plane within that paddle's vertical extent leaves the ball on
\* the plane with its horizontal velocity reversed, and adds no point.
Projected ==
  [x |-> ProjectedX,
   y |-> Max(BALL_RADIUS, Min(GAME_HEIGHT - BALL_RADIUS,
                              ball.y + Trunc(ballSpeed.vy * TickDt * U, 1000)))]

CrossesWithin(planeX, pY) ==
  /\ IF planeX = playerCollisionPlaneX
     THEN ballSpeed.vx < 0 /\ ball.x > planeX /\ Projected.x <= planeX
     ELSE ballSpeed.vx > 0 /\ ball.x < planeX /\ Projected.x >= planeX
  /\ IntersectionY(ball, Projected, planeX) >= pY - PADDLE_HEIGHT \div 2
  /\ IntersectionY(ball, Projected, planeX) <= pY + PADDLE_HEIGHT \div 2

C6_NoTunnelling ==
  [][ IsTick =>
        /\ CrossesWithin(playerCollisionPlaneX, playerY)
             => /\ ball'.x = playerCollisionPlaneX
                /\ ballSpeed'.vx > 0
                /\ ballSpeed'.vx >= -ballSpeed.vx
                /\ score' = score
        /\ CrossesWithin(computerCollisionPlaneX, computerY)
             => /\ ball'.x = computerCollisionPlaneX
                /\ ballSpeed'.vx = -ballSpeed.vx
                /\ score' = score ]_vars

\* the player's paddle has returned a ball of at least twice the serve speed
C6_Witness ==
  /\ lastEvent = "hit_player"
  /\ ball.x = playerCollisionPlaneX
  /\ ballSpeed.vx >= 2 * initialBallSpeedX(difficulty)
  /\ ballSpeed.vx <= maxBallSpeedX(difficulty)

\* C7: the centre of the player's paddle and the centre of the computer's
\* paddle always lie in [PADDLE_HEIGHT/2, GAME_HEIGHT - PADDLE_HEIGHT/2].
C7_PaddlesInField ==
  /\ minPaddleY <= playerY /\ playerY <= maxPaddleY
  /\ minPaddleY <= computerY /\ computerY <= maxPaddleY

\* under a calibrated range the player's paddle has followed a hand above
\* the frame to the upper limit, and the computer's paddle is at a limit
C7_Witness ==
  /\ calibrationRange # Uncalibrated
  /\ handVisibleRef
  /\ playerY = minPaddleY
  /\ computerY \in {minPaddleY, maxPaddleY}

\* C8: every change of the status is one of the listed transitions.
ListedTransitions ==
  { <<"idle", "running">>, <<"idle", "calibrating">>, <<"running", "paused">>,
    <<"paused", "running">>, <<"running", "idle">>, <<"paused", "idle">>,
    <<"running", "over">>, <<"over", "idle">>, <<"calibrating", "idle">> }

C8_OnlyListedTransitions ==
  [][gameStatus' # gameStatus => <<gameStatus, gameStatus'>> \in ListedTransitions]_vars

\* C9: a gesture triggers an action (pause, resume, reset, start) only when
\* the cooldown of the previous gesture action has elapsed: 1000 ms after a
\* pause or resume, 2000 ms after a reset or start.
GestureActions == {"pause", "resume", "reset", "start"}

C9_Cooldown == [][lastEvent' \in GestureActions => cooldownLeft = 0]_vars

\* a game resumed by a gesture, one cooldown after the gesture that paused it
C9_Witness == lastEvent = "resume" /\ cooldownLeft = PAUSE_COOLDOWN

\* C10: a reset gesture accepted while the status is running or paused
\* leaves, in the same step, the status idle, the score and the persistent
\* tally at {0,0}, the calibration history empty and the active range at the
\* uncalibrated value.
C10_FullReset ==
  [][ (lastEvent' = "reset" /\ gameStatus \in {"running", "paused"})
        => /\ gameStatus' = "idle"
           /\ score' = Zero
           /\ persistentScore' = Zero
           /\ calibrationHistory' = << >>
           /\ calibrationRange' = Uncalibrated ]_vars

\* C11: the status changes from idle to running, by the start button or by
\* the start gesture, only when the landmark source is ready.
C11_StartOnlyWhenReady ==
  [][(gameStatus = "idle" /\ gameStatus' = "running") => webcamReady]_vars

\* a game started by the thumbs_up gesture after an earlier game was played
C11_Witness ==
  /\ gameStatus = "running"
  /\ lastEvent = "start"
  /\ persistentScore # Zero

\* C12: the active calibration range is always the uncalibrated value or a
\* range with min < max and max - min > 0.1, and (a full reset apart) it
\* changes only at the end of a calibration attempt in which both boundary
\* steps were captured: an attempt that did not capture both commits nothing.
C12_RangeValidAndCommitted ==
  /\ [](calibrationRange = Uncalibrated \/ ValidRange(calibrationRange))
  /\ [][(calibrationRange' # calibrationRange /\ lastEvent' # "reset")
          => attemptSteps' = {"up", "down"}]_vars

\* C13: whenever the history is not empty the active range's min is the mean
\* of the mins of the ranges in the history, and its max the mean of their
\* maxes (to the resolution of the model); the history changes only by a
\* full reset or by an accepted calibration, which appends exactly the
\* captured range, so a finished calibration appends at most one entry.
IsMean(r, h) ==
  \A f \in {"min", "max"} :
    /\ Len(h) * r[f] <= SumOf(h, f)
    /\ SumOf(h, f) < Len(h) * r[f] + Len(h)

AcceptsCalibration == lastEvent' = "calibration_finished" /\ ValidRange(calibrationDataRef')

C13_RangeIsMeanOfHistory ==
  /\ [](calibrationHistory # << >> => IsMean(calibrationRange, calibrationHistory))
  /\ [][ /\ Len(calibrationHistory') <= Len(calibrationHistory) + 1
         /\ calibrationHistory' # calibrationHistory
              => (lastEvent' = "reset" \/ AcceptsCalibration)
         /\ AcceptsCalibration
              => calibrationHistory' = Append(calibrationHistory, calibrationDataRef') ]_vars

\* a second calibration has been accepted whose range differs from the first
C13_Witness ==
  /\ lastEvent = "calibration_finished"
  /\ Len(calibrationHistory) = 2
  /\ calibrationHistory[1] # calibrationHistory[2]
  /\ calibrationRange # calibrationHistory[2]

\* C14: the step that finishes a calibration whose captured range has
\* max - min <= 0.1 leaves the status idle and the calibration step at
\* start, and no step of an attempt other than a full reset or the
\* acceptance of a captured range with max - min > 0.1 changes the active
\* range or the history: after the invalid attempt both are as they were
\* before it.
CapturesInvalid ==
  /\ lastEvent' = "calibration_finished"
  /\ calibrationDataRef'.max - calibrationDataRef'.min <= 100

CapturesValid ==
  /\ lastEvent' = "calibration_finished"
  /\ calibrationDataRef'.max - calibrationDataRef'.min > 100

C14_InvalidRangeDiscarded ==
  [][ /\ CapturesInvalid => (gameStatus' = "idle" /\ calibrationStep' = "start")
      /\ (gameStatus = "calibrating" /\ ~CapturesValid /\ lastEvent' # "reset")
           => /\ calibrationRange' = calibrationRange
              /\ calibrationHistory' = calibrationHistory ]_vars

\* a calibration that captured boundaries less than a tenth of the frame
\* apart has finished, and the range of an earlier calibration is active
C14_Witness ==
  /\ lastEvent = "calibration_finished"
  /\ gameStatus = "idle"
  /\ calibrationDataRef = [min |-> 460, max |-> 540]
  /\ calibrationRange # Uncalibrated
  /\ Len(calibrationHistory) = 1

\* C15: under the active calibration range a larger raw wrist height never
\* maps to a smaller paddle target and every target lies in
\* [PADDLE_HEIGHT/2, GAME_HEIGHT - PADDLE_HEIGHT/2]; when the active range is
\* not valid the target is the full-frame mapping of the height clamped to
\* [0, 1]; and the target the landmark callback stores for a control hand is
\* a value of this mapping.
FullFrame(wy) ==
  Trunc(Max(0, Min(wy, 1000)) * (GAME_HEIGHT - PADDLE_HEIGHT), 1000) + PADDLE_HEIGHT \div 2

C15_MappingMonotone ==
  /\ [](/\ \A y1, y2 \in RawYs :
             y1 <= y2 => mapToPaddleY(y1, calibrationRange) <= mapToPaddleY(y2, calibrationRange)
        /\ \A y \in RawYs :
             /\ mapToPaddleY(y, calibrationRange) >= PADDLE_HEIGHT \div 2
             /\ mapToPaddleY(y, calibrationRange) <= GAME_HEIGHT - PADDLE_HEIGHT \div 2
        /\ calibrationRange.max - calibrationRange.min <= 100
             => \A y \in RawYs : mapToPaddleY(y, calibrationRange) = FullFrame(y))
  /\ [][targetPlayerYRef' # targetPlayerYRef
          => \E y \in RawYs : targetPlayerYRef' = mapToPaddleY(y, calibrationRange)]_vars

\* under a calibrated range the hand was shown inside the range and the
\* target is strictly inside the paddle's travel, off the centre
C15_Witness ==
  /\ calibrationRange = [min |-> 200, max |-> 800]
  /\ handVisibleRef
  /\ targetPlayerYRef = mapToPaddleY(330, calibrationRange)
  /\ targetPlayerYRef > PADDLE_HEIGHT \div 2
  /\ targetPlayerYRef < GAME_HEIGHT \div 2

\* C16: while the smoothing loop runs and the target stays the same, a tick
\* never moves the rendered paddle away from the target nor past it, moves
\* it when it is not yet there, and puts it exactly on the target when the
\* distance is below 0.5 px; and with a constant target the paddle is
\* eventually exactly on the target.
PaddleTargets ==
  {GAME_HEIGHT \div 2} \cup {mapToPaddleY(wy, Uncalibrated) : wy \in WristYs}

SmoothingTick ==
  /\ lastDt' >= 0
  /\ gameStatus \in {"running", "paused", "calibrating"}
  /\ targetPlayerYRef' = targetPlayerYRef

C16_SmoothingConverges ==
  /\ [][SmoothingTick =>
          LET before == targetPlayerYRef - playerY
              after == targetPlayerYRef - playerY'
          IN  /\ Abs(after) <= Abs(before)
              /\ Sign(before) * Sign(after) >= 0
              /\ before # 0 => after # before
              /\ 2 * Abs(before) < U => after = 0]_vars
  /\ \A t \in PaddleTargets :
       (gameStatus = "calibrating" /\ targetPlayerYRef = t) ~> (playerY = t)

\* the paddle has come to rest on the upper limit, 300 px from the centre
\* where it started
C16_Witness ==
  /\ gameStatus = "calibrating"
  /\ lastDt >= 0
  /\ targetPlayerYRef = minPaddleY
  /\ playerY = minPaddleY

\* ------------------------------------------------------------------------
\* Malformed landmark frames: a hand with too few landmarks, or with a
\* coordinate that is not a finite number, in a landmark detectGesture reads.
\* ------------------------------------------------------------------------
ShortHand(pose, wy) == SubSeq(Hand(pose, wy), 1, 20)

NonFiniteY(pose, wy, i) == [Hand(pose, wy) EXCEPT ![i + 1].y = NaN]

NonFiniteHand == [k \in 1..21 |-> [x |-> NaN, y |-> NaN]]

MalformedFrames ==
  { ShortHand("fist", 500), ShortHand("thumbs_up", 500),
    NonFiniteY("fist", 500, WRIST), NonFiniteY("fist", 500, INDEX_FINGER_TIP),
    NonFiniteY("fist", 500, THUMB_TIP), NonFiniteHand }

\* a calibration during which the landmark source also delivers malformed
\* frames
MalformedLandmarks ==
  /\ gameStatus \in {"idle", "calibrating"}
  /\ \E f \in MalformedFrames : OnResults(f)

NextMalformed ==
  \/ CameraStart
  \/ ClickCalibrate
  \/ ClickStartCalibrationSequence
  \/ CalibrationLandmarks
  \/ MalformedLandmarks
  \/ SteadyFrame

SpecMalformed == Init /\ [][NextMalformed]_vars

\* C17: the classifier answers unknown for every frame that has fewer than
\* 21 landmarks or a non-finite coordinate in a landmark it reads.
C17_MalformedIsUnknown ==
  [][\A f \in MalformedFrames : OnResults(f) => detectGesture(f) = "unknown"]_vars

\* ------------------------------------------------------------------------
\* The classifier on its own: during a calibration hands of every pose are
\* shown, among them closed hands whose thumb tip sits at one of several
\* heights relative to the wrist (index PIP at -100, middle MCP at -90,
\* thumb IP at -70).
\* ------------------------------------------------------------------------
ThumbDys == {-100, -91, -90, -80, -70, -69, 0, 40}

ClosedHand(dy, wy) == [Hand("fist", wy) EXCEPT ![THUMB_TIP + 1].y = wy + dy]

\* a closed hand held with the knuckles up: the thumb's IP joint and the
\* middle finger's MCP joint are above the index PIP joint, the thumb tip
\* between them
KnucklesUpHand(wy) ==
  [Hand("fist", wy) EXCEPT ![THUMB_IP + 1].y = wy - 150,
                           ![MIDDLE_FINGER_MCP + 1].y = wy - 150,
                           ![THUMB_TIP + 1].y = wy - 120]

ClassifierFrames ==
  {ClosedHand(dy, wy) : dy \in ThumbDys, wy \in CalibrationWristYs}
    \cup {Hand(p, 500) : p \in PoseNames}
    \cup {KnucklesUpHand(500)}

ClassifierLandmarks ==
  /\ gameStatus = "calibrating"
  /\ playerY = targetPlayerYRef
  /\ \E f \in ClassifierFrames : OnResults(f)

NextClassifier ==
  \/ CameraStart
  \/ ClickCalibrate
  \/ ClassifierLandmarks
  \/ SteadyFrame
  \/ LockTimerFire

SpecClassifier == Init /\ [][NextClassifier]_vars

\* the fist pattern: the four finger tips are below their PIP joints and the
\* thumb tip is not above the index PIP joint
FistPattern(l) ==
  /\ Len(l) = 21
  /\ l[INDEX_FINGER_TIP + 1].y > l[INDEX_FINGER_PIP + 1].y
  /\ l[MIDDLE_FINGER_TIP + 1].y > l[MIDDLE_FINGER_PIP + 1].y
  /\ l[RING_FINGER_TIP + 1].y > l[RING_FINGER_PIP + 1].y
  /\ l[PINKY_TIP + 1].y > l[PINKY_PIP + 1].y
  /\ ~(l[THUMB_TIP + 1].y < l[INDEX_FINGER_PIP + 1].y)

\* the thumb tip is below the thumb's IP joint and below the middle finger's
\* MCP joint
ThumbPointsDown(l) ==
  /\ l[THUMB_TIP + 1].y > l[THUMB_IP + 1].y
  /\ l[THUMB_TIP + 1].y > l[MIDDLE_FINGER_MCP + 1].y

\* a frame classified as a fist during a calibration is the one whose wrist
\* height is kept as the last valid calibration position
ClassifiedFist(f) ==
  /\ detectGesture(f) = "fist"
  /\ gameStatusRef = "calibrating" => lastValidCalibPositionRef' = <<f[1].y>>

\* C18 as stated: every delivered hand that satisfies the fist pattern is
\* classified as a fist.
C18_FistPatternIsFist ==
  [][\A f \in ClassifierFrames : (OnResults(f) /\ FistPattern(f)) => ClassifiedFist(f)]_vars

\* C18 amended: every delivered hand that satisfies the fist pattern and
\* whose thumb does not point down is classified as a fist; one whose thumb
\* points down is classified as thumbs_down.
C18_FistUnlessThumbDown ==
  [][\A f \in ClassifierFrames :
       (OnResults(f) /\ FistPattern(f)) =>
         IF ThumbPointsDown(f) THEN detectGesture(f) = "thumbs_down"
         ELSE ClassifiedFist(f)]_vars

\* a fist shown during a calibration has been recorded as the last valid
\* calibration position
C18_Witness ==
  /\ gameStatus = "calibrating"
  /\ lastValidCalibPositionRef = <<800>>
  /\ lastEvent = "landmarks"
  /\ handVisibleRef

\* C19: a step in which a malformed frame is delivered changes the state
\* exactly as the delivery of a frame without a hand would: the hand counts
\* as not visible, the paddle target and the gesture lock keep their values
\* and the calibration machine takes its hand-left step.
C19_MalformedIsNoHand ==
  [][\A f \in MalformedFrames : OnResults(f) => OnResults(NoHand)]_vars

\* ------------------------------------------------------------------------
\* Games with the banter layer: the service answers at any moment, fails, or
\* never answers.
\* ------------------------------------------------------------------------
\* the ball is served again until MaxBanterPoints points have been played
BanterServe ==
  /\ score.player + score.computer < MaxBanterPoints
  /\ ResetBallTimerFire

NextBanter ==
  \/ CameraStart
  \/ ClickStart
  \/ ClickFetchBanter
  \/ ServiceAnswer
  \/ BanterFrame
  \/ ShowBanter
  \/ ClearBanterTimerFire
  \/ BanterServe

SpecBanter == Init /\ [][NextBanter]_vars

\* the last step scored a point
Scored == lastEvent \in {"point_player", "point_computer"}

\* C20: a step that scores a point takes the old message down and starts the
\* wait for the next one; the wait never exceeds 50 ms; the step that ends it
\* puts a message on display; and a message on display is never empty --
\* whether the service has answered, has failed or has not answered.
C20_BanterShown ==
  /\ [][Scored' => (banterWait' = 0 /\ aiMessage' = << >>)]_vars
  /\ [](banterWait <= BANTER_DELAY)
  /\ [][(banterWait >= 0 /\ banterWait' = -1) => aiMessage' # << >>]_vars
  /\ [](aiMessage # << >> => aiMessage[1] # "")

\* a message is on display after a point although the service has not
\* answered
C20_Witness ==
  /\ lastEvent = "banter_shown"
  /\ aiMessage # << >>
  /\ aiMessage[1] # ""
  /\ isFetchingBanter
  /\ score.player + score.computer > 0

\* ------------------------------------------------------------------------
\* One tick of the game loop on its own: a running game whose ball is at one
\* of several positions with one of several velocities, followed over display
\* frames with short and long gaps until it meets a paddle or a point is
\* scored.
\* ------------------------------------------------------------------------
InitTick ==
  /\ gameStatus = "running"
  /\ gameStatusRef = "running"
  /\ difficulty = "medium"
  /\ gestureType = "fist"
  /\ playerY \in TickPaddles
  /\ targetPlayerYRef = playerY
  /\ webcamReady = TRUE
  /\ persistentScore = Zero
  /\ calibrationStep = "start"
  /\ calibrationRange = Uncalibrated
  /\ calibrationHistory = << >>
  /\ calibrationDataRef = Uncalibrated
  /\ lastValidCalibPositionRef = << >>
  /\ handVisibleRef = FALSE
  /\ gestureActionLockRef = FALSE
  /\ aiMessage = << >>
  /\ taunts = FALLBACK_TAUNTS
  /\ praises = FALLBACK_PRAISES
  /\ isFetchingBanter = TRUE
  /\ ball \in TickBalls
  /\ ballSpeed \in TickSpeeds
  /\ computerY = GAME_HEIGHT \div 2
  /\ score = Zero
  /\ isReady = TRUE
  /\ gameOverInitiated = FALSE
  /\ prevScoreRef = Zero
  /\ pointScoredRef = FALSE
  /\ timers = << >>
  /\ cooldownLeft = 0
  /\ attemptSteps = {}
  /\ banterWait = -1
  /\ lastEvent = "init"
  /\ lastDt = -1

TickFrame ==
  /\ lastEvent \notin {"hit_player", "hit_computer"}
  /\ \E gap \in TickGaps : Frame(gap)

NextTick == TickFrame

SpecTick == InitTick /\ [][NextTick]_vars

\* the scenario: the ball at (640, 360) moving right at 300 px/s, the player's
\* paddle centred at 360, and a frame 100 ms after the last one
ScenarioTick ==
  /\ gameStatus = "running"
  /\ ball = [x |-> 640 * U, y |-> 360 * U]
  /\ ballSpeed = [vx |-> 300, vy |-> 0]
  /\ playerY = 360 * U
  /\ Frame(100)

\* C21 as stated: the scenario's tick moves the ball to (670, 360), without a
\* collision or a point.
C21_ScenarioUnclamped ==
  [][ScenarioTick =>
       /\ ball' = [x |-> 670 * U, y |-> 360 * U]
       /\ ballSpeed' = ballSpeed /\ score' = score /\ lastEvent' = "move"]_vars

\* C21 amended: the time step of the scenario's tick is clamped to 50 ms, so
\* the tick moves the ball to (655, 360), without a collision or a point.
C21_ScenarioClamped ==
  [][ScenarioTick =>
       /\ ball' = [x |-> 655 * U, y |-> 360 * U]
       /\ ballSpeed' = ballSpeed /\ score' = score /\ lastEvent' = "move"]_vars

\* the scenario's tick has been taken from the initial state
C21_Witness ==
  /\ ball = [x |-> 655 * U, y |-> 360 * U]
  /\ ballSpeed = [vx |-> 300, vy |-> 0]
  /\ playerY = 360 * U
  /\ score = Zero
  /\ lastEvent = "move"

\* C22: whatever the gap between two frames, the time step of the tick is at
\* most 50 ms and the ball moves, along each axis, no further than its speed
\* carries it in 50 ms; a tick whose time step is zero leaves ball, velocity,
\* computer paddle and score as they are.
C22_ClampedStep ==
  [][\A gap \in TickGaps :
       Frame(gap) =>
         /\ lastDt' \in 0..MAX_DT
         /\ lastDt' <= gap
         /\ 1000 * Abs(ball'.x - ball.x) <= Abs(ballSpeed.vx) * MAX_DT * U
         /\ 1000 * Abs(ball'.y - ball.y) <= Abs(ballSpeed.vy) * MAX_DT * U
         /\ lastDt' = 0 => UNCHANGED canvasVars]_vars

\* a wall bounce within a tick of the full 50 ms, and nothing moved by it
\* further than 50 ms allow
C22_Witness ==
  /\ lastDt = MAX_DT
  /\ lastEvent = "wall"
  /\ gameStatus = "running"

\* ------------------------------------------------------------------------
\* C23: the ball, its velocity, the computer paddle and the score change
\* only while the status is running: a step that starts and ends in a status
\* other than running leaves all four as they were.
C23_FrozenUnlessRunning ==
  [][gameStatus # "running" /\ gameStatus' # "running"
       => UNCHANGED <<ball, ballSpeed, computerY, score>>]_vars

\* ------------------------------------------------------------------------
\* C24: once a score has reached WINNING_SCORE, and for as long as it stays
\* there (a new game puts the score back to zero), the ball is not served
\* again (it stays where it left the field) and the scoring lock stays set.
Won == score.player >= WINNING_SCORE \/ score.computer >= WINNING_SCORE

C24_NoServeAfterWin ==
  [][Won' => /\ pointScoredRef'
             /\ Won => ball' = ball /\ ballSpeed' = ballSpeed]_vars

\* the game is over, the ball lies outside the field and the lock is set
C24_Witness ==
  /\ Won
  /\ gameStatus = "over"
  /\ lastEvent = "game_over"
  /\ pointScoredRef
  /\ outOfField(ball.x + Trunc(ballSpeed.vx * MAX_DT * U, 1000)) # "none"

\* ------------------------------------------------------------------------
\* C25: the serve that follows a point.  While the ball waits for the serve
\* it lies where it left the field, so the half of the field it lies in is
\* the side that was scored against.
ServeAfterPoint ==
  /\ gameStatus = "running"
  /\ pointScoredRef
  /\ ~Won
  /\ outOfField(ball.x + Trunc(ballSpeed.vx * MAX_DT * U, 1000)) # "none"
  /\ ResetBallTimerFire

ScoredAgainst == IF ball.x < GAME_WIDTH \div 2 THEN "player" ELSE "computer"

\* the player defends the left edge, the computer the right one
Toward(side, vx) == IF side = "player" THEN vx < 0 ELSE vx > 0

\* C25: the serve after a non-winning point puts the ball on the centre with
\* a horizontal speed of initialBallSpeedX directed toward the side that was
\* scored against, and releases the scoring lock in the same step.
C25_ServedTowardLoser ==
  [][ServeAfterPoint =>
       /\ ball' = Centre
       /\ Abs(ballSpeed'.vx) = initialBallSpeedX(difficulty)
       /\ ~pointScoredRef'
       /\ Toward(ScoredAgainst, ballSpeed'.vx)]_vars

\* what the serve does: the same, directed away from the side scored against
ServedTowardScorer ==
  [][ServeAfterPoint =>
       /\ ball' = Centre
       /\ Abs(ballSpeed'.vx) = initialBallSpeedX(difficulty)
       /\ ~pointScoredRef'
       /\ ~Toward(ScoredAgainst, ballSpeed'.vx)]_vars

\* ------------------------------------------------------------------------
\* C26: the walls.
ProjectedY == ball.y + Trunc(ballSpeed.vy * TickDt * U, 1000)

PassesWall == ProjectedY > GAME_HEIGHT - BALL_RADIUS \/ ProjectedY < BALL_RADIUS

NearestWall ==
  IF ProjectedY > GAME_HEIGHT - BALL_RADIUS THEN GAME_HEIGHT - BALL_RADIUS ELSE BALL_RADIUS

BetweenWalls == ball.y >= BALL_RADIUS /\ ball.y <= GAME_HEIGHT - BALL_RADIUS

\* C26 as stated: the ball's y always lies in [BALL_RADIUS, GAME_HEIGHT -
\* BALL_RADIUS], and every tick whose projected y passes a wall puts the ball
\* on that wall and negates vy.
C26_WallBounceEveryTick ==
  [][/\ BetweenWalls'
     /\ IsTick /\ PassesWall =>
          ball'.y = NearestWall /\ ballSpeed'.vy = -ballSpeed.vy]_vars

\* C26: the ball's y always lies in [BALL_RADIUS, GAME_HEIGHT - BALL_RADIUS].
\* A tick whose projected y passes a wall and that keeps the ball in the
\* field puts the ball on that wall and negates vy, unless the player's
\* paddle is hit in the same tick, which sets vy from the point of impact; a
\* tick in which the ball leaves the field changes neither position nor
\* velocity.
C26_WallBounce ==
  [][/\ BetweenWalls'
     /\ IsTick /\ PassesWall =>
          IF lastEvent' \in {"point_player", "point_computer", "out"}
          THEN ball' = ball /\ ballSpeed' = ballSpeed
          ELSE /\ ball'.y = NearestWall
               /\ lastEvent' # "hit_player" => ballSpeed'.vy = -ballSpeed.vy]_vars

\* the ball has just bounced off a wall
C26_Witness ==
  /\ lastEvent = "wall"
  /\ lastDt > 0
  /\ ball.y \in {BALL_RADIUS, GAME_HEIGHT - BALL_RADIUS}
  /\ ballSpeed.vy # 0

\* ------------------------------------------------------------------------
\* C27: a boundary is committed only after the hand has been held at the
\* screen edge.  The paddle drawn for a control point at height y (in
\* thousandths of the frame) is centred on y * GAME_HEIGHT; it is in the top
\* (bottom) zone when its top (bottom) edge is within 5 px of the screen edge.
InTopZone(y) == Trunc(y * GAME_HEIGHT, 1000) - PADDLE_HEIGHT \div 2 <= 5 * U

InBottomZone(y) == Trunc(y * GAME_HEIGHT, 1000) + PADDLE_HEIGHT \div 2 >= GAME_HEIGHT - 5 * U

FinishesCalibration ==
  /\ gameStatus = "calibrating"
  /\ calibrationStep = "down"
  /\ handVisibleRef
  /\ lastValidCalibPositionRef # << >>
  /\ lastValidCalibPositionRef[1] > 500
  /\ OnResults(NoHand)

\* C29: whenever a calibration finishes, with a valid range or not, the step
\* is back at its initial value and the status is idle once the frame has
\* been handled.
C29_FinishedReturnsToIdle ==
  [][FinishesCalibration =>
       /\ calibrationStep' = "start"
       /\ gameStatus' = "idle"
       /\ gameStatusRef' = "idle"]_vars

\* a first calibration has finished without a valid range: nothing was
\* committed, the step is back at its initial value and the status is idle
C29_Witness ==
  /\ lastEvent = "calibration_finished"
  /\ calibrationStep = "start"
  /\ gameStatus = "idle"
  /\ ~ValidRange(calibrationDataRef)
  /\ calibrationHistory = << >>
  /\ calibrationRange = Uncalibrated

\* ------------------------------------------------------------------------
\* C30: a frame whose wrist height is not finite is a no-op for the paddle:
\* the smoothing target and the paddle keep their values, and neither of
\* them ever becomes NaN.
NonFiniteWrist(f) == Len(f) > 0 /\ f[1].y = NaN

C30_NonFiniteIsNoOp ==
  [][/\ targetPlayerYRef' # NaN
     /\ playerY' # NaN
     /\ \A f \in MalformedFrames :
          OnResults(f) /\ NonFiniteWrist(f) =>
            targetPlayerYRef' = targetPlayerYRef /\ playerY' = playerY]_vars

\* ------------------------------------------------------------------------
\* C31: whenever the status is idle or over, the smoothing target and the
\* player's paddle are both at the vertical centre.
C31_CentredWhenIdle ==
  gameStatus \in {"idle", "over"} =>
    /\ targetPlayerYRef = GAME_HEIGHT \div 2
    /\ playerY = GAME_HEIGHT \div 2

\* what holds of the paddle itself: it does not move while the status is
\* idle or over
PaddleCentredWhenIdle ==
  gameStatus \in {"idle", "over"} => playerY = GAME_HEIGHT \div 2

\* ------------------------------------------------------------------------
\* The opening of a game, during which the control hand is shown at a new
\* height, or leaves the picture, each time the paddle has come to rest;
\* landmark callbacks and display frames come in any order.
PlayWristYs == {200, 825}

PlayFrames == {NoHand} \cup {Hand(gestureType, wy) : wy \in PlayWristYs}

PlayLandmarks ==
  /\ gameStatus = "running"
  /\ playerY = targetPlayerYRef
  /\ \E f \in PlayFrames : OnResults(f)

\* the rally is followed until the first point or the player's first return
PlayFrame ==
  /\ score = Zero
  /\ Abs(ballSpeed.vx) = initialBallSpeedX(difficulty)
  /\ SteadyFrame

NextPlay ==
  \/ CameraStart
  \/ ClickStart
  \/ PlayLandmarks
  \/ PlayFrame

SpecPlay == Init /\ [][NextPlay]_vars

\* C32: a landmark callback that leaves the status as it is changes neither
\* the player's paddle nor the ball, its velocity, the computer's paddle or
\* the score: it writes the smoothing target only.
C32_CallbackWritesTargetOnly ==
  [][\A f \in PlayFrames :
       OnResults(f) /\ gameStatus' = gameStatus =>
         UNCHANGED <<playerY, ball, ballSpeed, computerY, score>>]_vars

\* a callback of a running game has moved the target away from a paddle that
\* the ball is flying toward
C32_Witness ==
  /\ gameStatus = "running"
  /\ lastEvent = "landmarks"
  /\ targetPlayerYRef # playerY
  /\ ball # Centre
  /\ ballSpeed.vx < 0

\* ------------------------------------------------------------------------
\* C33: the conditions of the classifier's rules (App.tsx 118-159), each on
\* its own, for a frame l of 21 finite landmarks.
CurledFingers(l) ==
  /\ l[INDEX_FINGER_TIP + 1].y > l[INDEX_FINGER_PIP + 1].y
  /\ l[MIDDLE_FINGER_TIP + 1].y > l[MIDDLE_FINGER_PIP + 1].y
  /\ l[RING_FINGER_TIP + 1].y > l[RING_FINGER_PIP + 1].y
  /\ l[PINKY_TIP + 1].y > l[PINKY_PIP + 1].y

ThumbsUpRule(l) == l[THUMB_TIP + 1].y < l[INDEX_FINGER_PIP + 1].y /\ CurledFingers(l)

ThumbsDownRule(l) == ThumbPointsDown(l) /\ CurledFingers(l)

PointerRule(l) ==
  /\ l[INDEX_FINGER_TIP + 1].y < l[INDEX_FINGER_PIP + 1].y
  /\ l[MIDDLE_FINGER_TIP + 1].y > l[MIDDLE_FINGER_PIP + 1].y
  /\ l[RING_FINGER_TIP + 1].y > l[RING_FINGER_PIP + 1].y
  /\ l[PINKY_TIP + 1].y > l[PINKY_PIP + 1].y

FistRule(l) == CurledFingers(l) /\ ~(l[THUMB_TIP + 1].y < l[INDEX_FINGER_PIP + 1].y)

Square(n) == n * n

SpreadRule(l) ==
  /\ l[INDEX_FINGER_TIP + 1].y < l[INDEX_FINGER_PIP + 1].y
  /\ l[MIDDLE_FINGER_TIP + 1].y < l[MIDDLE_FINGER_PIP + 1].y
  /\ l[RING_FINGER_TIP + 1].y < l[RING_FINGER_PIP + 1].y
  /\ l[PINKY_TIP + 1].y < l[PINKY_PIP + 1].y
  /\ l[THUMB_TIP + 1].x < l[THUMB_IP + 1].x
  /\ 100 * (Square(l[INDEX_FINGER_TIP + 1].x - l[PINKY_TIP + 1].x)
            + Square(l[INDEX_FINGER_TIP + 1].y - l[PINKY_TIP + 1].y))
       > 121 * (Square(l[WRIST + 1].x - l[MIDDLE_FINGER_MCP + 1].x)
                + Square(l[WRIST + 1].y - l[MIDDLE_FINGER_MCP + 1].y))

\* the rules in the order in which detectGesture tries them
RuleOrder == <<"thumbs_up", "thumbs_down", "pointer", "fist", "spread">>

RuleHolds(name, l) ==
  CASE name = "thumbs_up"   -> ThumbsUpRule(l)
    [] name = "thumbs_down" -> ThumbsDownRule(l)
    [] name = "pointer"     -> PointerRule(l)
    [] name = "fist"        -> FistRule(l)
    [] name = "spread"      -> SpreadRule(l)

MatchingRules(l) == {i \in 1..Len(RuleOrder) : RuleHolds(RuleOrder[i], l)}

FirstMatch(l) ==
  IF MatchingRules(l) = {} THEN "open"
  ELSE RuleOrder[CHOOSE i \in MatchingRules(l) : \A j \in MatchingRules(l) : i <= j]

\* C33 as stated: for every delivered frame of 21 landmarks at most one rule
\* condition holds.
C33_RulesExclusive ==
  [][\A f \in ClassifierFrames :
       OnResults(f) => Cardinality(MatchingRules(f)) <= 1]_vars

\* C33: for every delivered frame of 21 landmarks the conditions of pointer
\* and of spread each exclude every other condition and the condition of
\* thumbs_up excludes that of fist; the condition of thumbs_down can hold
\* together with that of fist or of thumbs_up, and the classifier answers
\* with the first rule, in its order, whose condition holds.
C33_FirstMatchWins ==
  [][\A f \in ClassifierFrames :
       OnResults(f) =>
         /\ \/ Cardinality(MatchingRules(f)) <= 1
            \/ MatchingRules(f) = {1, 2}
            \/ MatchingRules(f) = {2, 4}
         /\ detectGesture(f) = FirstMatch(f)]_vars

\* a closed hand whose thumb points down has been delivered during a
\* calibration: it meets the conditions of thumbs_down and of fist, and the
\* reset it stands for has been carried out
C33_Witness ==
  /\ lastEvent = "reset"
  /\ gameStatus = "idle"
  /\ MatchingRules(ClosedHand(40, 200)) = {2, 4}
  /\ MatchingRules(KnucklesUpHand(500)) = {1, 2}

\* ------------------------------------------------------------------------
\* C34: once the status is idle no timer of the game that is still pending
\* (it can only have been started before the status became idle: points are
\* scored, and cooldowns of a game taken, in a running game) changes the
\* status, the score or the ball when it expires.
GameTimerFires == GameOverTimerFire \/ ResetBallTimerFire \/ LockTimerFire

C34_NoDanglingTimers ==
  [][gameStatus = "idle" /\ GameTimerFires
       => UNCHANGED <<gameStatus, score, ball, ballSpeed>>]_vars

\* ------------------------------------------------------------------------
\* C35: a game that is paused and resumed continues from the state it had:
\* the step to paused and the step from paused back to running leave the
\* score, the ball, its velocity and the computer paddle as they were.
C35_ResumeKeepsGame ==
  [][\/ gameStatus = "running" /\ gameStatus' = "paused"
     \/ gameStatus = "paused" /\ gameStatus' = "running"
       => UNCHANGED <<score, ball, ballSpeed, computerY>>]_vars

\* ------------------------------------------------------------------------
\* C36: whenever the status is over, one of the two scores equals
\* WINNING_SCORE and the other is below it.
C36_OverMeansWon ==
  gameStatus = "over" =>
    \/ score.player = WINNING_SCORE /\ score.computer < WINNING_SCORE
    \/ score.computer = WINNING_SCORE /\ score.player < WINNING_SCORE

\* ------------------------------------------------------------------------
\* C37: the gesture lock is set exactly while one release timer is pending,
\* there are never two of them, and a lock that is set is released later.
LockTimers == {i \in 1..Len(timers) : timers[i].kind = "lock"}

LockHeldWithOneTimer ==
  /\ Cardinality(LockTimers) <= 1
  /\ gestureActionLockRef <=> LockTimers # {}

C37_LockReleased ==
  /\ []LockHeldWithOneTimer
  /\ gestureActionLockRef ~> ~gestureActionLockRef

\* a lock taken by a gesture has been released by its timer
C37_Witness ==
  /\ lastEvent = "unlock"
  /\ ~gestureActionLockRef
  /\ LockTimers = {}

\* ------------------------------------------------------------------------
\* C38: whenever the status is not calibrating, the calibration step is at
\* its initial value start.
C38_StepStartOutsideCalibration ==
  gameStatus # "calibrating" => calibrationStep = "start"

\* ------------------------------------------------------------------------
\* The status mirror as a step of its own.  App.tsx 198-200 copies the
\* status into gameStatusRef in an effect of the commit that changed it.
\* For a status set by a click or by the landmark callback the effect has
\* run before the next gesture is acted on (the click's commit runs its
\* effects at once, the callback takes the lock); for the status set by the
\* delayed callback of GameCanvas.tsx 377-379 the commit and its effect are
\* two tasks of the browser, and a landmark callback can run between them.
\* ------------------------------------------------------------------------
\* the commit of a status update, before its effects (SetGameStatus without
\* the mirror)
CommitGameStatus(new, tgt, S) ==
  /\ gameStatus' = new
  /\ IF new # gameStatus /\ new \notin {"running", "paused", "calibrating"}
     THEN targetPlayerYRef' = GAME_HEIGHT \div 2 /\ playerY' = GAME_HEIGHT \div 2
     ELSE targetPlayerYRef' = tgt /\ UNCHANGED playerY
  /\ IF new = "running" /\ new # gameStatus
     THEN \E sv \in Serves :
            SetShared(StatusEffects(gameStatus, new, initialBallSpeedX(difficulty),
                                    sv[1], sv[2], S))
     ELSE SetShared(StatusEffects(gameStatus, new, initialBallSpeedX(difficulty),
                                  1, INITIAL_BALL_SPEED_Y_MIN, S))

\* GameCanvas.tsx 377-379: the delayed setGameStatus('over') and its commit
GameOverTimerCommit ==
  \E i \in 1..Len(timers) :
    /\ Due(i)
    /\ timers[i].kind = "gameOver"
    /\ CommitGameStatus("over", targetPlayerYRef, [Shared EXCEPT !.tm = Remove(timers, i)])
    /\ lastEvent' = "game_over"
    /\ lastDt' = -1
    /\ NoGesture
    /\ NoBanter
    /\ UNCHANGED <<gameStatusRef, difficulty, gestureType, webcamReady, calibrationStep,
                   calibrationRange, calibrationHistory, calibrationDataRef,
                   lastValidCalibPositionRef, handVisibleRef, gestureActionLockRef>>

\* App.tsx 198-200: the effect of the commit copies the status
MirrorEffect ==
  /\ gameStatusRef # gameStatus
  /\ gameStatusRef' = gameStatus
  /\ lastEvent' = "mirror"
  /\ lastDt' = -1
  /\ NoGesture
  /\ NoBanter
  /\ UNCHANGED <<gameStatus, difficulty, gestureType, playerY, targetPlayerYRef,
                 webcamReady, persistentScore, calibrationStep, calibrationRange,
                 calibrationHistory, calibrationDataRef, lastValidCalibPositionRef,
                 handVisibleRef, gestureActionLockRef, canvasVars, timers>>

\* One game played to its end and the gestures shown after it.
NextMirror ==
  \/ CameraStart
  \/ ClickStart
  \/ GestureLandmarks
  \/ SteadyFrame
  \/ LockTimerFire
  \/ ResetBallTimerFire
  \/ GameOverTimerCommit
  \/ MirrorEffect

SpecMirror == Init /\ [][NextMirror]_vars

\* C39: a gesture action is decided on the status the game has: a landmark
\* callback pauses only a running game, resumes only a paused game and
\* starts a game only from idle.
C39_DecidedOnCurrentStatus ==
  [][/\ lastEvent' = "pause" => gameStatus = "running"
     /\ lastEvent' = "resume" => gameStatus = "paused"
     /\ lastEvent' = "start" => gameStatus = "idle"]_vars

\* ------------------------------------------------------------------------
\* Points in quick succession, with the banter layer: a running game whose
\* ball is at one of several positions, some of them about to leave the
\* field, played on for MaxBanterPoints points.
\* ------------------------------------------------------------------------
NextRally ==
  \/ ServiceAnswer
  \/ BanterFrame
  \/ ShowBanter
  \/ ClearBanterTimerFire
  \/ BanterServe

SpecRally == InitTick /\ [][NextRally]_vars

\* ------------------------------------------------------------------------
\* C40: at most one dismissal timer is pending at any time; a message on
\* display has its own dismissal timer, started with 4 s when the message was
\* put up; and a message is taken down only by that timer when its 4 s have
\* passed, or by the next point.
DismissalTimers == {i \in 1..Len(timers) : timers[i].kind = "clearBanter"}

AtMostOneDismissal == Cardinality(DismissalTimers) <= 1

DisplayedHasDismissal ==
  aiMessage # << >> =>
    \E i \in DismissalTimers : timers[i].ref /\ timers[i].rem <= BANTER_DURATION

C40_OneDismissalTimer ==
  /\ []AtMostOneDismissal
  /\ []DisplayedHasDismissal
  /\ [][lastEvent' = "banter_shown" =>
          \E i \in 1..Len(timers') :
            /\ timers'[i].kind = "clearBanter"
            /\ timers'[i].rem = BANTER_DURATION]_vars
  /\ [][aiMessage # << >> /\ aiMessage' = << >> =>
          \/ Scored'
          \/ /\ lastEvent' = "banter_cleared"
             /\ \A i \in DismissalTimers : timers[i].rem = 0]_vars

\* each side has scored once; the message of the second point is on display
\* while its dismissal timer, the only one pending, runs
C40_Witness ==
  /\ score.player = 1 /\ score.computer = 1
  /\ aiMessage # << >>
  /\ Cardinality(DismissalTimers) = 1
  /\ \E i \in DismissalTimers : timers[i].rem < BANTER_DURATION /\ timers[i].rem > 0

====
